---- MODULE Spec2Model ----
(***************************************************************************)
(* Model of the text-form editing engine of archive-witness-db-tools:      *)
(* the field kinds (tools/src/editing/fields.rs), the Form                 *)
(* (tools/src/editing/forms.rs), the entity codecs (masters.rs, videos.rs, *)
(* news.rs, nist_tapes.rs, nist_videos.rs) and the add/edit commands       *)
(* (tools/src/cmd/*.rs) with the persistence calls they make (db/src).     *)
(*                                                                         *)
(* Text is modelled by TLA+ strings; the Rust string functions the code    *)
(* uses (contains, trim_start_matches, trim, split, join, to_lowercase)    *)
(* are operators computed character by character.                          *)
(***************************************************************************)
EXTENDS Integers, Sequences, FiniteSets, TLC

\* ------------------------------------------------------------------------
\* Bounds of the model
\* ------------------------------------------------------------------------

\* longest run of whitespace the editor leaves after a label
MaxBlank == 2
\* save calls made over a sequence of commands run one after the other
MaxSaves == 2
\* largest number of candidates injected by one add_choices call
MaxChoices == 2

\* sections of a form the user rewrites in one sitting of the editor
MaxEdits == 1

\* download_file calls made for one URL
MaxCalls == 3

\* bytes of the response body one chunk can carry
MaxChunk == 2

\* ------------------------------------------------------------------------
\* Rust string functions (std::str)
\* ------------------------------------------------------------------------

\* char::is_whitespace, restricted to the characters the texts contain
Whitespace == {" ", "\n", "\t"}

\* str::starts_with
StartsWith(s, p) == Len(p) <= Len(s) /\ SubSeq(s, 1, Len(p)) = p

\* str::contains
Contains(s, p) == \E i \in 0..(Len(s) - Len(p)) : SubSeq(s, i + 1, i + Len(p)) = p

\* str::find: the offset of the first match (only used when one exists)
Find(s, p) ==
    CHOOSE i \in 0..(Len(s) - Len(p)) :
        /\ SubSeq(s, i + 1, i + Len(p)) = p
        /\ \A j \in 0..(i - 1) : SubSeq(s, j + 1, j + Len(p)) # p

\* str::trim_start_matches: the prefix is removed repeatedly
RECURSIVE TrimStartMatches(_, _)
TrimStartMatches(s, p) ==
    IF p # "" /\ StartsWith(s, p)
    THEN TrimStartMatches(SubSeq(s, Len(p) + 1, Len(s)), p)
    ELSE s

\* str::trim_start
RECURSIVE TrimStart(_)
TrimStart(s) ==
    IF s # "" /\ SubSeq(s, 1, 1) \in Whitespace
    THEN TrimStart(SubSeq(s, 2, Len(s)))
    ELSE s

\* str::trim_end
RECURSIVE TrimEnd(_)
TrimEnd(s) ==
    IF s # "" /\ SubSeq(s, Len(s), Len(s)) \in Whitespace
    THEN TrimEnd(SubSeq(s, 1, Len(s) - 1))
    ELSE s

\* str::trim
Trim(s) == TrimEnd(TrimStart(s))

\* str::split(sep).collect::<Vec<_>>(): always at least one item
RECURSIVE Split(_, _)
Split(s, sep) ==
    IF ~Contains(s, sep)
    THEN <<s>>
    ELSE LET i == Find(s, sep)
         IN  <<SubSeq(s, 1, i)>> \o Split(SubSeq(s, i + Len(sep) + 1, Len(s)), sep)

\* [String]::join(sep)
RECURSIVE Join(_, _)
Join(items, sep) ==
    IF Len(items) = 0 THEN ""
    ELSE IF Len(items) = 1 THEN items[1]
    ELSE items[1] \o sep \o Join(Tail(items), sep)

\* Iterator::map over a Vec
MapSeq(items, Op(_)) == [i \in 1..Len(items) |-> Op(items[i])]

\* str::to_lowercase, on the letters of the texts
LowerOf(c) ==
    CASE c = "Y" -> "y" [] c = "E" -> "e" [] c = "S" -> "s"
      [] c = "N" -> "n" [] c = "O" -> "o" [] OTHER -> c

RECURSIVE ToLowercase(_)
ToLowercase(s) ==
    IF s = "" THEN "" ELSE LowerOf(SubSeq(s, 1, 1)) \o ToLowercase(SubSeq(s, 2, Len(s)))

\* ------------------------------------------------------------------------
\* Result<T, E>
\* ------------------------------------------------------------------------

NoValue == [none |-> TRUE]
NoError == [tag |-> "", arg |-> ""]

Ok(v) == [ok |-> TRUE, panic |-> FALSE, val |-> v, err |-> NoError]
Err(tag, arg) ==
    [ok |-> FALSE, panic |-> FALSE, val |-> NoValue, err |-> [tag |-> tag, arg |-> arg]]

\* panic!(...) and unwrap() of an Err: the call does not return
Panic(tag, arg) ==
    [ok |-> FALSE, panic |-> TRUE, val |-> NoValue, err |-> [tag |-> tag, arg |-> arg]]

\* FormError (forms.rs)
MalformedField(name) == Err("MalformedField", name)
RequiredFieldEmpty(name) == Err("RequiredFieldEmpty", name)
MalformedForm == Err("MalformedForm", "")
FieldNotFound(name) == Err("FieldNotFound", name)
IncorrectType(name) == Err("IncorrectType", name)
ChoiceFieldNotFound(name) == Err("ChoiceFieldNotFound", name)

\* ------------------------------------------------------------------------
\* Field kinds (fields.rs).  A field is a record; kind is the Rust type.
\* value holds a String value, values a Vec<String> value, flag a bool value.
\* ------------------------------------------------------------------------

Field(kind, name, value, values, choices, flag) ==
    [kind |-> kind, name |-> name, value |-> value, values |-> values,
     choices |-> choices, flag |-> flag]

TextField_new(name, value) == Field("TextField", name, value, <<>>, <<>>, FALSE)
MultilineTextField_new(name, value) ==
    Field("MultilineTextField", name, value, <<>>, <<>>, FALSE)
OptionalMultilineTextField_new(name, value) ==
    Field("OptionalMultilineTextField", name, value, <<>>, <<>>, FALSE)
OptionalChoiceListField_new(name, values) ==
    Field("OptionalChoiceListField", name, "", values, <<>>, FALSE)
ListField_new(name, values) == Field("ListField", name, "", values, <<>>, FALSE)
OptionalListField_new(name, values) ==
    Field("OptionalListField", name, "", values, <<>>, FALSE)
MultilineListField_new(name, values) ==
    Field("MultilineListField", name, "", values, <<>>, FALSE)
OptionalMultilineListField_new(name, values) ==
    Field("OptionalMultilineListField", name, "", values, <<>>, FALSE)
ChoiceField_new(name, value) == Field("ChoiceField", name, value, <<>>, <<>>, FALSE)
OptionalChoiceField_new(name, value) ==
    Field("OptionalChoiceField", name, value, <<>>, <<>>, FALSE)
BooleanField_new(name, flag) == Field("BooleanField", name, "", <<>>, <<>>, flag)

\* the `;`-split loop shared by the list kinds:
\* name_stripped.split(';').map(|v| v.trim())
SplitItems(name_stripped) ==
    IF name_stripped = "" THEN <<>> ELSE MapSeq(Split(name_stripped, ";"), Trim)

\* name_stripped.split('\n') of the multi-line list kinds
SplitLines(name_stripped) ==
    IF name_stripped = "" THEN <<>> ELSE Split(name_stripped, "\n")

\* TextField::from_input_str; TextField_from_input_str_empty_first is a parser
\* that makes the empty-value test before it looks for the label
TextField_from_input_str_empty_first(name, input) ==
    LET val == Trim(TrimStartMatches(input, name \o ": "))
    IN  IF val = "" THEN RequiredFieldEmpty(name)
        ELSE IF ~Contains(input, name) THEN MalformedField(name)
        ELSE Ok(TextField_new(name, val))

TextField_from_input_str(name, input) ==
    IF ~Contains(input, name) THEN MalformedField(name)
    ELSE LET val == Trim(TrimStartMatches(input, name \o ": "))
         IN  IF val = "" THEN RequiredFieldEmpty(name)
             ELSE Ok(TextField_new(name, val))

MultilineTextField_from_input_str(name, input) ==
    IF ~Contains(input, name) THEN MalformedField(name)
    ELSE LET val == Trim(TrimStartMatches(TrimStartMatches(input, name \o ":"), ":"))
         IN  IF val = "" THEN RequiredFieldEmpty(name)
             ELSE Ok(MultilineTextField_new(name, val))

OptionalMultilineTextField_from_input_str(name, input) ==
    IF ~Contains(input, name) THEN MalformedField(name)
    ELSE LET val == Trim(TrimStartMatches(input, name \o ":"))
         IN  Ok(OptionalMultilineTextField_new(name, val))

OptionalChoiceListField_from_input_str(name, input) ==
    IF ~Contains(input, name) THEN MalformedField(name)
    ELSE LET name_stripped == Trim(TrimStartMatches(input, name \o ": "))
         IN  Ok(OptionalChoiceListField_new(name, SplitItems(name_stripped)))

ListField_from_input_str(name, input) ==
    IF ~Contains(input, name) THEN MalformedField(name)
    ELSE LET name_stripped == Trim(TrimStartMatches(input, name \o ": "))
             values == SplitItems(name_stripped)
         IN  IF Len(values) = 0 THEN RequiredFieldEmpty(name)
             ELSE Ok(ListField_new(name, values))

OptionalListField_from_input_str(name, input) ==
    IF ~Contains(input, name) THEN MalformedField(name)
    ELSE LET name_stripped == Trim(TrimStartMatches(input, name \o ":"))
         IN  Ok(OptionalListField_new(name, SplitItems(name_stripped)))

MultilineListField_from_input_str(name, input) ==
    IF ~Contains(input, name) THEN MalformedField(name)
    ELSE LET name_stripped == Trim(TrimStartMatches(input, name \o ":"))
             values == SplitLines(name_stripped)
         IN  IF Len(values) = 0 THEN RequiredFieldEmpty(name)
             ELSE Ok(MultilineListField_new(name, values))

OptionalMultilineListField_from_input_str(name, input) ==
    IF ~Contains(input, name) THEN MalformedField(name)
    ELSE LET name_stripped == Trim(TrimStartMatches(input, name \o ":"))
         IN  Ok(OptionalMultilineListField_new(name, SplitLines(name_stripped)))

ChoiceField_from_input_str(name, input) ==
    IF ~Contains(input, name) THEN MalformedField(name)
    ELSE LET val == Trim(TrimStartMatches(input, name \o ": "))
         IN  IF val = "" THEN RequiredFieldEmpty(name)
             ELSE Ok(ChoiceField_new(name, val))

OptionalChoiceField_from_input_str(name, input) ==
    IF ~Contains(input, name) THEN MalformedField(name)
    ELSE LET val == Trim(TrimStartMatches(input, name \o ":"))
         IN  Ok(OptionalChoiceField_new(name, val))

BooleanField_from_input_str(name, input) ==
    IF ~Contains(input, name) THEN MalformedField(name)
    ELSE LET val == Trim(TrimStartMatches(input, name \o ": "))
         IN  IF val = "" THEN RequiredFieldEmpty(name)
             ELSE IF ToLowercase(val) = "yes" \/ ToLowercase(val) = "no"
                  THEN MalformedField(name)
                  ELSE Ok(BooleanField_new(name, ToLowercase(val) = "yes"))

\* Kind::from_input_str, by kind
from_input_str(kind, name, input) ==
    CASE kind = "TextField" -> TextField_from_input_str(name, input)
      [] kind = "MultilineTextField" -> MultilineTextField_from_input_str(name, input)
      [] kind = "OptionalMultilineTextField" ->
             OptionalMultilineTextField_from_input_str(name, input)
      [] kind = "OptionalChoiceListField" ->
             OptionalChoiceListField_from_input_str(name, input)
      [] kind = "ListField" -> ListField_from_input_str(name, input)
      [] kind = "OptionalListField" -> OptionalListField_from_input_str(name, input)
      [] kind = "MultilineListField" -> MultilineListField_from_input_str(name, input)
      [] kind = "OptionalMultilineListField" ->
             OptionalMultilineListField_from_input_str(name, input)
      [] kind = "ChoiceField" -> ChoiceField_from_input_str(name, input)
      [] kind = "OptionalChoiceField" -> OptionalChoiceField_from_input_str(name, input)
      [] kind = "BooleanField" -> BooleanField_from_input_str(name, input)

\* FormField::value
FormField_value(f) ==
    CASE f.kind \in {"TextField", "MultilineTextField", "OptionalMultilineTextField",
                     "ChoiceField", "OptionalChoiceField"} -> f.value
      [] f.kind = "OptionalChoiceListField" -> Join(f.values, ";")
      [] f.kind \in {"ListField", "OptionalListField"} -> Join(f.values, "; ")
      [] f.kind \in {"MultilineListField", "OptionalMultilineListField"} ->
             Join(f.values, "\n")
      [] f.kind = "BooleanField" -> IF f.flag THEN "Yes" ELSE "No"

\* the `for choice in self.choices` loop of the choice kinds' as_string
RECURSIVE ChoiceLines(_)
ChoiceLines(choices) ==
    IF Len(choices) = 0 THEN ""
    ELSE choices[1] \o "\n" \o ChoiceLines(Tail(choices))

\* TextField / ListField / OptionalListField ::as_string
InlineField_as_string(f) ==
    LET val == FormField_value(f)
    IN  f.name \o ":" \o (IF val # "" THEN " " \o val ELSE "")

\* MultilineTextField / OptionalMultilineTextField / MultilineListField /
\* OptionalMultilineListField ::as_string
MultilineField_as_string(f) == f.name \o ":\n" \o FormField_value(f)

OptionalChoiceListField_as_string(f) ==
    LET val == FormField_value(f)
    IN  Trim(f.name \o ":" \o
             (IF val = ""
              THEN "\n" \o "## CHOOSE ONE OR DELETE ALL ##\n" \o ChoiceLines(f.choices)
              ELSE " " \o val))

\* ChoiceField::as_string; ChoiceField_as_string_no_marker is a renderer that
\* forgets the marker line
ChoiceField_as_string_no_marker(f) ==
    LET val == FormField_value(f)
    IN  Trim(f.name \o ":" \o
             (IF val = "" THEN "\n" \o ChoiceLines(f.choices) ELSE " " \o val))

ChoiceField_as_string(f) ==
    LET val == FormField_value(f)
    IN  Trim(f.name \o ":" \o
             (IF val = ""
              THEN "\n" \o "## CHOOSE ONE ##\n" \o ChoiceLines(f.choices)
              ELSE " " \o val))

OptionalChoiceField_as_string(f) ==
    LET val == FormField_value(f)
    IN  Trim(f.name \o ":" \o
             (IF val = ""
              THEN "\n" \o (IF Len(f.choices) # 0
                            THEN "## CHOOSE ONE OR NONE ##\n" \o ChoiceLines(f.choices)
                            ELSE "")
              ELSE " " \o val))

BooleanField_as_string(f) == f.name \o ": " \o FormField_value(f)

\* FormField::as_string
FormField_as_string(f) ==
    CASE f.kind \in {"TextField", "ListField", "OptionalListField"} ->
             InlineField_as_string(f)
      [] f.kind \in {"MultilineTextField", "OptionalMultilineTextField",
                     "MultilineListField", "OptionalMultilineListField"} ->
             MultilineField_as_string(f)
      [] f.kind = "OptionalChoiceListField" -> OptionalChoiceListField_as_string(f)
      [] f.kind = "ChoiceField" -> ChoiceField_as_string(f)
      [] f.kind = "OptionalChoiceField" -> OptionalChoiceField_as_string(f)
      [] f.kind = "BooleanField" -> BooleanField_as_string(f)

\* ChoiceField / OptionalChoiceField / OptionalChoiceListField ::add_choices
Field_add_choices(f, choices) == [f EXCEPT !.choices = @ \o choices]

\* ------------------------------------------------------------------------
\* Form (forms.rs): an ordered Vec of fields
\* ------------------------------------------------------------------------

\* Form::new / Form::default
Form_new == <<>>

\* Form::add_field
Form_add_field(form, f) == Append(form, f)

\* Form::get_field: the first field of that name
Form_get_field(form, name) ==
    IF \E i \in 1..Len(form) : form[i].name = name
    THEN Ok(form[CHOOSE i \in 1..Len(form) :
                    /\ form[i].name = name
                    /\ \A j \in 1..(i - 1) : form[j].name # name])
    ELSE FieldNotFound(name)

\* Form::get_field_as::<T>
Form_get_field_as(form, name, kind) ==
    LET f == Form_get_field(form, name)
    IN  IF ~f.ok THEN f
        ELSE IF f.val.kind # kind THEN IncorrectType(name)
        ELSE f

\* index of the field get_field_mut finds
FieldIndex(form, name) ==
    CHOOSE i \in 1..Len(form) :
        /\ form[i].name = name
        /\ \A j \in 1..(i - 1) : form[j].name # name

\* Form::add_choices: Ok(form with the candidates appended) or ChoiceFieldNotFound
Form_add_choices(form, field_name, choices) ==
    IF Form_get_field_as(form, field_name, "OptionalChoiceListField").ok
    THEN Ok([form EXCEPT ![FieldIndex(form, field_name)] = Field_add_choices(@, choices)])
    ELSE IF Form_get_field_as(form, field_name, "ChoiceField").ok
    THEN Ok([form EXCEPT ![FieldIndex(form, field_name)] = Field_add_choices(@, choices)])
    ELSE ChoiceFieldNotFound(field_name)

\* the loop of Form::as_string
RECURSIVE JoinFields(_)
JoinFields(form) ==
    IF Len(form) = 0 THEN ""
    ELSE IF Len(form) = 1 THEN FormField_as_string(form[1])
    ELSE FormField_as_string(form[1]) \o "\n---\n" \o JoinFields(Tail(form))

\* Form::as_string
Form_as_string(form) == Trim(JoinFields(form))

\* the chain of `form.add_field(Box::new(Kind::from_input_str(name, parts[i])?))`
\* of a Form::from_*_str: the first error in section order, else the form
RECURSIVE ParseSections(_, _, _)
ParseSections(schema, parts, form) ==
    IF Len(schema) = 0 THEN Ok(form)
    ELSE LET r == from_input_str(schema[1][1], schema[1][2], parts[1])
         IN  IF ~r.ok THEN r
             ELSE ParseSections(Tail(schema), Tail(parts), Form_add_field(form, r.val))

\* ------------------------------------------------------------------------
\* Option<T>, dates and durations
\* ------------------------------------------------------------------------

None == <<>>
Some(x) == <<x>>

Digits == "0123456789"
IsDigit(c) == Len(c) = 1 /\ Contains(Digits, c)
DigitVal(c) == Find(Digits, c)
DigitAt(n) == SubSeq(Digits, n + 1, n + 1)

AllDigits(s) == s # "" /\ \A i \in 1..Len(s) : IsDigit(SubSeq(s, i, i))

\* str::parse::<i64> of a string of digits
RECURSIVE ParseInt(_)
ParseInt(s) ==
    IF s = "" THEN 0
    ELSE ParseInt(SubSeq(s, 1, Len(s) - 1)) * 10 + DigitVal(SubSeq(s, Len(s), Len(s)))

\* format!("{:02}", n), n < 100
Pad2(n) == DigitAt(n \div 10) \o DigitAt(n % 10)

\* format!("{:04}", n), n < 10000
Pad4(n) == Pad2(n \div 100) \o Pad2(n % 100)

\* chrono::NaiveDate, a calendar date
NaiveDate(y, m, d) == [y |-> y, m |-> m, d |-> d]

DaysInMonth(y, m) ==
    IF m \in {4, 6, 9, 11} THEN 30
    ELSE IF m = 2 THEN (IF (y % 4 = 0 /\ y % 100 # 0) \/ y % 400 = 0 THEN 29 ELSE 28)
    ELSE 31

\* NaiveDate::to_string: %Y-%m-%d
NaiveDate_to_string(date) == Pad4(date.y) \o "-" \o Pad2(date.m) \o "-" \o Pad2(date.d)

\* str::parse::<NaiveDate>: year-month-day in digits, a real calendar date
NaiveDate_from_str(s) ==
    LET parts == Split(s, "-")
    IN  IF /\ Len(parts) = 3
           /\ \A i \in 1..3 : AllDigits(parts[i])
           /\ Len(parts[1]) <= 4 /\ Len(parts[2]) <= 2 /\ Len(parts[3]) <= 2
           /\ ParseInt(parts[2]) \in 1..12
           /\ ParseInt(parts[3]) \in 1..DaysInMonth(ParseInt(parts[1]), ParseInt(parts[2]))
        THEN Ok(NaiveDate(ParseInt(parts[1]), ParseInt(parts[2]), ParseInt(parts[3])))
        ELSE Err("ParseError", s)

\* helpers::parse_duration; a Duration is a number of milliseconds
parse_duration(time) ==
    LET parts == Split(time, ":")
        secs == IF Len(parts) = 3 THEN Split(parts[3], ".") ELSE <<>>
    IN  IF /\ Len(parts) = 3 /\ AllDigits(parts[1]) /\ AllDigits(parts[2])
           /\ Len(secs) \in {1, 2} /\ \A i \in 1..Len(secs) : AllDigits(secs[i])
        THEN ParseInt(parts[1]) * 3600000 + ParseInt(parts[2]) * 60000
                 + ParseInt(secs[1]) * 1000
                 + (IF Len(secs) = 2 THEN ParseInt(secs[2]) ELSE 0)
        ELSE LET m == IF Contains(time, "m") THEN Find(time, "m") ELSE 0
                 mins == SubSeq(time, 1, m)
                 rest == IF Contains(time, "m") THEN SubSeq(time, m + 2, Len(time)) ELSE time
                 sec == IF rest = "" THEN "" ELSE SubSeq(rest, 1, Len(rest) - 1)
             IN  IF /\ Contains(time, "m") => AllDigits(mins)
                    /\ rest # "" => (SubSeq(rest, Len(rest), Len(rest)) = "s" /\ AllDigits(sec))
                 THEN (IF Contains(time, "m") THEN ParseInt(mins) * 60000 ELSE 0)
                          + (IF rest # "" THEN ParseInt(sec) * 1000 ELSE 0)
                 ELSE 0

\* PgInterval::try_from(Duration): microseconds
PgInterval_try_from(duration) == duration * 1000

\* helpers::interval_to_duration: back to milliseconds
interval_to_duration(interval) == interval \div 1000

\* helpers::duration_to_string: HH:MM:SS
duration_to_string(d) ==
    Pad2(d \div 3600000) \o ":" \o Pad2((d \div 60000) % 60) \o ":" \o Pad2((d \div 1000) % 60)

\* ------------------------------------------------------------------------
\* News codecs (news.rs)
\* ------------------------------------------------------------------------

NewsNetwork(id, name, description) ==
    [id |-> id, name |-> name, description |-> description]

NewsAffiliate(id, name, description, region, network) ==
    [id |-> id, name |-> name, description |-> description, region |-> region,
     network |-> network]

NewsBroadcast(id, date, description, news_network, news_affiliate) ==
    [id |-> id, date |-> date, description |-> description,
     news_network |-> news_network, news_affiliate |-> news_affiliate]

\* NewsNetwork::default, NewsAffiliate::default, NewsBroadcast::default
NewsNetwork_default == NewsNetwork(0, "", "")
NewsAffiliate_default == NewsAffiliate(0, "", "", "", NewsNetwork_default)
NewsBroadcast_default == NewsBroadcast(0, NaiveDate(1970, 1, 1), "", None, None)

\* impl Display for NewsBroadcast
NewsBroadcast_to_string(b) ==
    (IF b.news_network # None THEN b.news_network[1].name
     ELSE IF b.news_affiliate # None THEN b.news_affiliate[1].name
     ELSE "")
        \o " (" \o NaiveDate_to_string(b.date) \o ")"

\* Iterator::find: the first item satisfying the test (only used when one exists)
FirstWhere(items, Test(_)) ==
    items[CHOOSE i \in 1..Len(items) :
              Test(items[i]) /\ \A j \in 1..(i - 1) : ~Test(items[j])]

AnyItem(items, Test(_)) == \E i \in 1..Len(items) : Test(items[i])

NewsNetworkSchema == <<<<"TextField", "Name">>, <<"MultilineTextField", "Description">>>>

NewsAffiliateSchema ==
    <<<<"ChoiceField", "Network">>, <<"TextField", "Name">>,
      <<"MultilineTextField", "Description">>, <<"TextField", "Region">>>>

NewsBroadcastSchema ==
    <<<<"OptionalChoiceField", "Network">>, <<"OptionalChoiceField", "Affiliate">>,
      <<"TextField", "Date">>, <<"MultilineTextField", "Description">>>>

\* Form::from_news_network_str
from_news_network_str(s) ==
    LET parts == Split(s, "---\n")
    IN  IF Len(parts) # 2 THEN MalformedForm
        ELSE ParseSections(NewsNetworkSchema, parts, Form_new)

\* Form::from_news_affiliate_str
from_news_affiliate_str(s) ==
    LET parts == Split(s, "---\n")
    IN  IF Len(parts) # 4 THEN MalformedForm
        ELSE ParseSections(NewsAffiliateSchema, parts, Form_new)

\* Form::from_news_broadcast_str
from_news_broadcast_str(s) ==
    LET parts == Split(s, "---\n")
    IN  IF Len(parts) # 4 THEN MalformedForm
        ELSE ParseSections(NewsBroadcastSchema, parts, Form_new)

\* impl From<&NewsNetwork> for Form
Form_from_NewsNetwork(model) ==
    <<TextField_new("Name", model.name),
      MultilineTextField_new("Description", model.description)>>

\* impl From<&NewsAffiliate> for Form
Form_from_NewsAffiliate(model) ==
    <<TextField_new("Name", model.name),
      MultilineTextField_new("Description", model.description),
      TextField_new("Region", model.region),
      TextField_new("Network", model.network.name)>>

\* impl From<&NewsBroadcast> for Form
Form_from_NewsBroadcast(model) ==
    <<OptionalChoiceField_new("Network",
          IF model.news_network = None THEN "" ELSE model.news_network[1].name),
      OptionalChoiceField_new("Affiliate",
          IF model.news_affiliate = None THEN "" ELSE model.news_affiliate[1].name),
      TextField_new("Date", NaiveDate_to_string(model.date)),
      MultilineTextField_new("Description", model.description)>>

\* form.get_field(name)?.value(), as a Result
FieldValue(form, name) ==
    LET f == Form_get_field(form, name)
    IN  IF f.ok THEN Ok(FormField_value(f.val)) ELSE f

\* news_network_from_form
news_network_from_form(id, form) ==
    LET name == FieldValue(form, "Name")
        description == FieldValue(form, "Description")
    IN  IF ~name.ok THEN name
        ELSE IF ~description.ok THEN description
        ELSE Ok(NewsNetwork(id, name.val, description.val))

\* news_affiliate_from_form; news_affiliate_from_form_defaulting is a
\* reconstruction that falls back on the first network of the list
news_affiliate_from_form_defaulting(id, form, networks) ==
    LET name == FieldValue(form, "Name")
        description == FieldValue(form, "Description")
        region == FieldValue(form, "Region")
        network_name == FieldValue(form, "Network")
        Named(m) == m.name = network_name.val
    IN  Ok(NewsAffiliate(id, name.val, description.val, region.val,
                         IF AnyItem(networks, Named) THEN FirstWhere(networks, Named)
                         ELSE networks[1]))

news_affiliate_from_form(id, form, networks) ==
    LET name == FieldValue(form, "Name")
        description == FieldValue(form, "Description")
        region == FieldValue(form, "Region")
        network_name == FieldValue(form, "Network")
        Named(m) == m.name = network_name.val
    IN  IF ~name.ok THEN name
        ELSE IF ~description.ok THEN description
        ELSE IF ~region.ok THEN region
        ELSE IF ~network_name.ok THEN network_name
        ELSE IF ~AnyItem(networks, Named) THEN Err("is not in the networks list", network_name.val)
        ELSE Ok(NewsAffiliate(id, name.val, description.val, region.val,
                              FirstWhere(networks, Named)))

\* news_broadcast_from_form
news_broadcast_from_form(id, form, networks, affiliates) ==
    LET network_name == FieldValue(form, "Network")
        affiliate_name == FieldValue(form, "Affiliate")
        date == FieldValue(form, "Date")
        description == FieldValue(form, "Description")
        IsNetwork(m) == m.name = network_name.val
        IsAffiliate(m) == m.name = affiliate_name.val
    IN  IF ~network_name.ok THEN network_name
        ELSE IF network_name.val # "" /\ ~AnyItem(networks, IsNetwork)
        THEN Err("is not in the networks list", network_name.val)
        ELSE IF ~affiliate_name.ok THEN affiliate_name
        ELSE IF affiliate_name.val # "" /\ ~AnyItem(affiliates, IsAffiliate)
        THEN Err("is not in the affiliates list", affiliate_name.val)
        ELSE IF ~date.ok THEN date
        ELSE IF ~description.ok THEN description
        ELSE IF ~NaiveDate_from_str(date.val).ok THEN NaiveDate_from_str(date.val)
        ELSE Ok(NewsBroadcast(id, NaiveDate_from_str(date.val).val, description.val,
                    IF network_name.val = "" THEN None
                    ELSE Some(FirstWhere(networks, IsNetwork)),
                    IF affiliate_name.val = "" THEN None
                    ELSE Some(FirstWhere(affiliates, IsAffiliate))))

\* ------------------------------------------------------------------------
\* Video codec (videos.rs)
\* ------------------------------------------------------------------------

Video(channel_username, description, duration, id, is_primary, link, master, title) ==
    [channel_username |-> channel_username, description |-> description,
     duration |-> duration, id |-> id, is_primary |-> is_primary, link |-> link,
     master |-> master, title |-> title]

VideoSchema ==
    <<<<"ChoiceField", "Master">>, <<"TextField", "Title">>, <<"TextField", "Channel">>,
      <<"OptionalMultilineListField", "Description">>, <<"TextField", "Link">>,
      <<"TextField", "Duration">>, <<"BooleanField", "Primary">>>>

\* Form::from_video_str
from_video_str(s) ==
    LET parts == Split(s, "---\n")
    IN  IF Len(parts) # 7 THEN MalformedForm
        ELSE ParseSections(VideoSchema, parts, Form_new)

\* impl From<&Video> for Form
Form_from_Video(video) ==
    <<ChoiceField_new("Master", video.master.title),
      TextField_new("Title", video.title),
      TextField_new("Channel", video.channel_username),
      OptionalMultilineTextField_new("Description",
          IF video.description = None THEN "" ELSE video.description[1]),
      TextField_new("Link", video.title),
      TextField_new("Duration", duration_to_string(interval_to_duration(video.duration))),
      BooleanField_new("Primary", video.is_primary)>>

\* video_from_form
video_from_form(id, form, masters) ==
    LET master_title == FieldValue(form, "Master")
        IsMaster(m) == m.title = master_title.val
        title == FieldValue(form, "Title")
        channel_username == FieldValue(form, "Channel")
        description == FieldValue(form, "Description")
        link == FieldValue(form, "Link")
        duration == FieldValue(form, "Duration")
        is_primary == FieldValue(form, "Primary")
    IN  IF ~master_title.ok THEN master_title
        ELSE IF ~AnyItem(masters, IsMaster)
        THEN Err("is not in the master list", master_title.val)
        ELSE IF ~title.ok THEN title
        ELSE IF ~channel_username.ok THEN channel_username
        ELSE IF ~description.ok THEN description
        ELSE IF ~link.ok THEN link
        ELSE IF ~duration.ok THEN duration
        ELSE IF ~is_primary.ok THEN is_primary
        ELSE Ok(Video(channel_username.val,
                      IF description.val = "" THEN None ELSE Some(description.val),
                      PgInterval_try_from(parse_duration(duration.val)),
                      id, ToLowercase(is_primary.val) = "yes", link.val,
                      FirstWhere(masters, IsMaster), title.val))

\* ------------------------------------------------------------------------
\* NIST tape and NIST video codecs (nist_tapes.rs, nist_videos.rs)
\* ------------------------------------------------------------------------

NistTapeSchema == <<<<"OptionalMultilineListField", "NIST Files">>>>

\* Form::from_nist_tape_str: the whole text is one section
from_nist_tape_str(s) == ParseSections(NistTapeSchema, <<s>>, Form_new)

\* impl From<&NistTape> for Form
Form_from_NistTape(model) ==
    <<OptionalMultilineListField_new("NIST Files",
          [i \in 1..Len(model.release_files) |-> model.release_files[i][1]])>>

\* the `.map(|n| (PathBuf::from(n), 0))` of the NIST Files field;
\* PathsWithCatalogSize is a mapping that gives the known files the sizes
\* 100 and 200 the release catalogue records for them
PathsWithCatalogSize(input) ==
    [i \in 1..Len(input) |->
        <<input[i], IF input[i] = "42A0001.avi" THEN 100
                    ELSE IF input[i] = "42A0002.avi" THEN 200 ELSE 0>>]

PathsWithSizeZero(input) == [i \in 1..Len(input) |-> <<input[i], 0>>]

\* get_release_files_from_form
get_release_files_from_form(form) ==
    LET f == Form_get_field_as(form, "NIST Files", "OptionalMultilineListField")
    IN  IF ~f.ok THEN f ELSE Ok(PathsWithSizeZero(f.val.values))

NistVideoSchema ==
    <<<<"BooleanField", "Missing?">>, <<"OptionalMultilineTextField", "Additional Notes">>>>

\* Form::from_nist_video_str
from_nist_video_str(s) ==
    LET parts == Split(s, "---\n")
    IN  IF Len(parts) # 2 THEN MalformedForm
        ELSE ParseSections(NistVideoSchema, parts, Form_new)

\* impl From<&NistVideo> for Form
Form_from_NistVideo(model) ==
    <<BooleanField_new("Missing?", model.is_missing),
      OptionalMultilineTextField_new("Additional Notes",
          IF model.additional_notes = None THEN "" ELSE model.additional_notes[1])>>

\* get_missing_and_additional_notes_field
get_missing_and_additional_notes_field(form) ==
    LET is_missing == Form_get_field_as(form, "Missing?", "BooleanField")
        additional_notes ==
            Form_get_field_as(form, "Additional Notes", "OptionalMultilineTextField")
    IN  IF ~is_missing.ok THEN is_missing
        ELSE IF ~additional_notes.ok THEN additional_notes
        ELSE Ok(<<is_missing.val.flag, additional_notes.val.value>>)

\* ------------------------------------------------------------------------
\* Master-video model types (db/src/models.rs)
\* ------------------------------------------------------------------------

Categories ==
    {"AmateurFootage", "Compilation", "Documentary", "News", "ProfessionalFootage",
     "SurvivorAccount"}

\* impl Display for Category
Category_to_string(c) ==
    CASE c = "AmateurFootage" -> "amateur-footage"
      [] c = "Compilation" -> "compilation"
      [] c = "Documentary" -> "documentary"
      [] c = "News" -> "news"
      [] c = "ProfessionalFootage" -> "professional-footage"
      [] c = "SurvivorAccount" -> "survivor-account"

\* impl From<&str> for Category: panics on any other text
Category_from(s) ==
    CASE s = "amateur-footage" -> Ok("AmateurFootage")
      [] s = "compilation" -> Ok("Compilation")
      [] s = "documentary" -> Ok("Documentary")
      [] s = "news" -> Ok("News")
      [] s = "professional-footage" -> Ok("ProfessionalFootage")
      [] OTHER -> Panic("is not a valid category", s)

EventTypes ==
    {"CameraSource", "Jumper", "Key", "Normal", "Person", "PentagonAttack", "Report",
     "Wtc1Collapse", "Wtc1Impact", "Wtc2Collapse", "Wtc2Impact"}

\* impl Display for EventType
EventType_to_string(e) ==
    CASE e = "CameraSource" -> "camera-source"
      [] e = "Jumper" -> "jumper"
      [] e = "Key" -> "key"
      [] e = "Normal" -> "normal"
      [] e = "Person" -> "person"
      [] e = "PentagonAttack" -> "pentagon-attack"
      [] e = "Report" -> "report"
      [] e = "Wtc1Collapse" -> "wtc1-collapse"
      [] e = "Wtc1Impact" -> "wtc1-impact"
      [] e = "Wtc2Collapse" -> "wtc2-collapse"
      [] e = "Wtc2Impact" -> "wtc2-impact"

\* impl From<&str> for EventType: panics on any other text
EventType_from(s) ==
    IF \E e \in EventTypes : EventType_to_string(e) = s
    THEN Ok(CHOOSE e \in EventTypes : EventType_to_string(e) = s)
    ELSE Panic("is not a valid event type", s)

EventTimestamp(id, description, timestamp, event_type, time_of_day) ==
    [id |-> id, description |-> description, timestamp |-> timestamp,
     event_type |-> event_type, time_of_day |-> time_of_day]

\* the regex class [\w-], on the characters of the texts
WordChars == "abcdefghijklmnopqrstuvwxyzABCDEFGHIJKLMNOPQRSTUVWXYZ0123456789_-"
AllWordChars(s) == s # "" /\ \A i \in 1..Len(s) : Contains(WordChars, SubSeq(s, i, i))

\* offset of the last occurrence of p in s (only used when one exists)
FindLast(s, p) ==
    CHOOSE i \in 0..(Len(s) - Len(p)) :
        /\ SubSeq(s, i + 1, i + Len(p)) = p
        /\ \A j \in (i + 1)..(Len(s) - Len(p)) : SubSeq(s, j + 1, j + Len(p)) # p

\* the two regexes of EventTimestamp::try_from, as the groups they capture:
\* ^(\d{2}:\d{2}:\d{2}): (.+?) \[(\d{4})?\] \[([\w-]+)\]$   and
\* ^(\d{2}:\d{2}:\d{2}): (.+?) \[([\w-]+)\]$
TimestampCaptures(s) ==
    LET time == SubSeq(s, 1, 8)
        timeOk == /\ Len(s) >= 10
                  /\ \A i \in {1, 2, 4, 5, 7, 8} : IsDigit(SubSeq(s, i, i))
                  /\ SubSeq(s, 3, 3) = ":" /\ SubSeq(s, 6, 6) = ":"
                  /\ SubSeq(s, 9, 10) = ": "
        rest == SubSeq(s, 11, Len(s))
        closed == rest # "" /\ SubSeq(rest, Len(rest), Len(rest)) = "]" /\ Contains(rest, " [")
        open == IF closed THEN FindLast(rest, " [") ELSE 0
        event_type == SubSeq(rest, open + 3, Len(rest) - 1)
        before == SubSeq(rest, 1, open)
        simple == timeOk /\ closed /\ AllWordChars(event_type) /\ before # ""
                      /\ ~Contains(s, "\n")
        n == Len(before)
        emptyTod == n >= 4 /\ SubSeq(before, n - 2, n) = " []"
        fullTod == /\ n >= 8 /\ SubSeq(before, n - 6, n - 5) = " ["
                   /\ SubSeq(before, n, n) = "]"
                   /\ AllDigits(SubSeq(before, n - 4, n - 1))
    IN  IF simple /\ fullTod
        THEN Ok([time |-> time, description |-> SubSeq(before, 1, n - 7),
                 time_of_day |-> Some(SubSeq(before, n - 4, n - 1)),
                 event_type |-> event_type])
        ELSE IF simple /\ emptyTod
        THEN Ok([time |-> time, description |-> SubSeq(before, 1, n - 3),
                 time_of_day |-> None, event_type |-> event_type])
        ELSE IF simple
        THEN Ok([time |-> time, description |-> before, time_of_day |-> None,
                 event_type |-> event_type])
        ELSE Err("Input string format is incorrect", s)

\* NaiveTime::from_hms_opt(hours, minutes, 0) of the four digits, else None
TimeOfDay(tod) ==
    IF tod = None THEN None
    ELSE LET hours == ParseInt(SubSeq(tod[1], 1, 2))
             minutes == ParseInt(SubSeq(tod[1], 3, 4))
         IN  IF hours <= 23 /\ minutes <= 59 THEN Some(<<hours, minutes>>) ELSE None

\* impl TryFrom<&str> for EventTimestamp
EventTimestamp_try_from(s) ==
    LET caps == TimestampCaptures(s)
    IN  IF ~caps.ok THEN caps
        ELSE IF ~EventType_from(caps.val.event_type).ok
        THEN EventType_from(caps.val.event_type)
        ELSE Ok(EventTimestamp(0, Trim(caps.val.description),
                    PgInterval_try_from(parse_duration(caps.val.time)),
                    EventType_from(caps.val.event_type).val,
                    TimeOfDay(caps.val.time_of_day)))

\* impl Display for EventTimestamp
EventTimestamp_to_string(t) ==
    duration_to_string(interval_to_duration(t.timestamp)) \o ": " \o t.description
        \o (IF t.time_of_day # None
            THEN " [" \o Pad2(t.time_of_day[1][1]) \o Pad2(t.time_of_day[1][2]) \o "]"
            ELSE "")
        \o " [" \o EventType_to_string(t.event_type) \o "]"

PersonTypes ==
    <<"Eyewitness", "Fire", "Police", "PortAuthority", "Reporter", "Survivor", "Victim",
      "Videographer">>

Person(id, name, historical_title, description, types) ==
    [id |-> id, name |-> name, historical_title |-> historical_title,
     description |-> description, types |-> types]

MasterVideo(categories, date, description, id, links, news_broadcasts, nist_files,
            nist_notes, people, timestamps, title) ==
    [categories |-> categories, date |-> date, description |-> description, id |-> id,
     links |-> links, news_broadcasts |-> news_broadcasts, nist_files |-> nist_files,
     nist_notes |-> nist_notes, people |-> people, timestamps |-> timestamps,
     title |-> title]

\* MasterVideo::default
MasterVideo_default == MasterVideo(<<>>, None, "", 0, <<>>, <<>>, <<>>, None, <<>>, <<>>, "")

\* Video::default
Video_default == Video("", None, 0, 0, FALSE, "", MasterVideo_default, "")

\* ------------------------------------------------------------------------
\* Master-video codec (masters.rs, mod.rs)
\* ------------------------------------------------------------------------

\* the (prefix, person_type) pairs of master_video_from_form
pairs ==
    <<<<"Eyewitnesses", "Eyewitness">>, <<"Fire", "Fire">>, <<"Police", "Police">>,
      <<"Port Authority", "PortAuthority">>, <<"Reporters", "Reporter">>,
      <<"Survivors", "Survivor">>, <<"Victims", "Victim">>,
      <<"Videographers", "Videographer">>>>

MasterVideoSchema ==
    <<<<"OptionalChoiceListField", "News Broadcasts">>, <<"TextField", "Title">>,
      <<"ListField", "Categories">>, <<"TextField", "Date">>,
      <<"MultilineTextField", "Description">>, <<"OptionalListField", "Links">>,
      <<"OptionalMultilineListField", "Timestamps">>,
      <<"OptionalMultilineTextField", "NIST Notes">>,
      <<"OptionalListField", "Eyewitnesses">>, <<"OptionalListField", "Fire">>,
      <<"OptionalListField", "Police">>, <<"OptionalListField", "Port Authority">>,
      <<"OptionalListField", "Reporters">>, <<"OptionalListField", "Survivors">>,
      <<"OptionalListField", "Victims">>, <<"OptionalListField", "Videographers">>,
      <<"OptionalMultilineListField", "NIST Files">>>>

\* Form::from_master_video_str
from_master_video_str(s) ==
    LET parts == Split(s, "---\n")
    IN  IF Len(parts) # 17 THEN MalformedForm
        ELSE ParseSections(MasterVideoSchema, parts, Form_new)

Includes(items, x) == \E i \in 1..Len(items) : items[i] = x

\* the filter_map of impl From<&MasterVideo> for Form: names of the people of a type
RECURSIVE NamesOfType(_, _)
NamesOfType(people, person_type) ==
    IF Len(people) = 0 THEN <<>>
    ELSE (IF Includes(people[1].types, person_type) THEN <<people[1].name>> ELSE <<>>)
             \o NamesOfType(Tail(people), person_type)

\* impl From<&MasterVideo> for Form
Form_from_MasterVideo(model) ==
    <<OptionalChoiceListField_new("News Broadcasts",
          MapSeq(model.news_broadcasts, NewsBroadcast_to_string)),
      TextField_new("Title", model.title),
      ListField_new("Categories", MapSeq(model.categories, Category_to_string)),
      TextField_new("Date",
          IF model.date = None THEN "" ELSE NaiveDate_to_string(model.date[1])),
      MultilineTextField_new("Description", model.description),
      OptionalListField_new("Links", MapSeq(model.categories, Category_to_string)),
      OptionalMultilineListField_new("Timestamps",
          MapSeq(model.timestamps, EventTimestamp_to_string)),
      OptionalMultilineTextField_new("NIST Notes",
          IF model.nist_notes = None THEN "" ELSE model.nist_notes[1]),
      ListField_new("Eyewitnesses", NamesOfType(model.people, "Eyewitness")),
      ListField_new("Fire", NamesOfType(model.people, "Fire")),
      ListField_new("Police", NamesOfType(model.people, "Police")),
      ListField_new("Port Authority", NamesOfType(model.people, "PortAuthority")),
      ListField_new("Reporters", NamesOfType(model.people, "Reporter")),
      ListField_new("Survivors", NamesOfType(model.people, "Survivor")),
      ListField_new("Victims", NamesOfType(model.people, "Victim")),
      ListField_new("Videographers", NamesOfType(model.people, "Videographer")),
      OptionalMultilineListField_new("NIST Files",
          MapSeq(model.timestamps, EventTimestamp_to_string))>>

\* get_people_from_input (mod.rs); get_people_from_input_anonymous is a
\* resolution that never looks the name up
get_people_from_input_anonymous(input, people, person_type) ==
    [i \in 1..Len(input) |-> Person(0, input[i], None, None, <<person_type>>)]

get_people_from_input(input, people, person_type) ==
    [i \in 1..Len(input) |->
        LET Named(p) == p.name = input[i]
        IN  IF AnyItem(people, Named)
            THEN LET person == FirstWhere(people, Named)
                 IN  Person(person.id, input[i], person.historical_title,
                            person.description, <<person_type>>)
            ELSE Person(0, input[i], None, None, <<person_type>>)]

\* first loop of a role category: push the people whose name is not yet present
RECURSIVE PushNewPeople(_, _)
PushNewPeople(video_people, people_input) ==
    IF Len(people_input) = 0 THEN video_people
    ELSE LET person == people_input[1]
             SameName(p) == p.name = person.name
         IN  PushNewPeople(IF ~AnyItem(video_people, SameName)
                           THEN Append(video_people, person)
                           ELSE video_people,
                           Tail(people_input))

\* second loop of a role category: add the type to the people listed in it;
\* AddTypes_unchecked is the loop without its `contains` test
AddTypes_unchecked(video_people, people_input) ==
    [i \in 1..Len(video_people) |->
        LET person == video_people[i]
            SameName(p) == p.name = person.name
        IN  IF AnyItem(people_input, SameName)
            THEN [person EXCEPT !.types =
                     Append(@, FirstWhere(people_input, SameName).types[1])]
            ELSE person]

AddTypes(video_people, people_input) ==
    [i \in 1..Len(video_people) |->
        LET person == video_people[i]
            SameName(p) == p.name = person.name
        IN  IF AnyItem(people_input, SameName)
               /\ ~Includes(person.types, FirstWhere(people_input, SameName).types[1])
            THEN [person EXCEPT !.types =
                     Append(@, FirstWhere(people_input, SameName).types[1])]
            ELSE person]

\* `for (prefix, person_type) in pairs.iter()` of master_video_from_form
RECURSIVE MergePeople(_, _, _, _)
MergePeople(form, people, remaining, video_people) ==
    IF Len(remaining) = 0 THEN Ok(video_people)
    ELSE LET f == Form_get_field_as(form, remaining[1][1], "OptionalListField")
         IN  IF ~f.ok THEN f
             ELSE LET people_input ==
                          get_people_from_input(f.val.values, people, remaining[1][2])
                  IN  MergePeople(form, people, Tail(remaining),
                          AddTypes(PushNewPeople(video_people, people_input),
                                   people_input))

\* the loop over broadcasts_input of master_video_from_form
ResolveBroadcasts(broadcasts_input, news_broadcasts) ==
    LET Unknown(i) ==
            \A j \in 1..Len(news_broadcasts) :
                NewsBroadcast_to_string(news_broadcasts[j]) # broadcasts_input[i]
    IN  IF \E i \in 1..Len(broadcasts_input) : Unknown(i)
        THEN Err("is not a valid broadcast",
                 broadcasts_input[CHOOSE i \in 1..Len(broadcasts_input) :
                     Unknown(i) /\ \A k \in 1..(i - 1) : ~Unknown(k)])
        ELSE Ok([i \in 1..Len(broadcasts_input) |->
                    LET Shown(b) == NewsBroadcast_to_string(b) = broadcasts_input[i]
                    IN  FirstWhere(news_broadcasts, Shown)])

\* the first failing item of a map over a Vec, else the mapped Vec
MapResults(items, Op(_)) ==
    LET Failed(i) == ~Op(items[i]).ok
    IN  IF \E i \in 1..Len(items) : Failed(i)
        THEN Op(items[CHOOSE i \in 1..Len(items) :
                        Failed(i) /\ \A k \in 1..(i - 1) : ~Failed(k)])
        ELSE Ok([i \in 1..Len(items) |-> Op(items[i]).val])

\* EventTimestamp::try_from(t.as_str()).unwrap()
TimestampUnwrap(t) ==
    LET r == EventTimestamp_try_from(t)
    IN  IF r.ok \/ r.panic THEN r ELSE Panic("called unwrap on an Err value", t)

\* master_video_from_form
master_video_from_form(id, form, news_broadcasts, people) ==
    LET broadcasts_input ==
            Form_get_field_as(form, "News Broadcasts", "OptionalChoiceListField")
        broadcasts == ResolveBroadcasts(broadcasts_input.val.values, news_broadcasts)
        title == FieldValue(form, "Title")
        categories_input == Form_get_field_as(form, "Categories", "ListField")
        categories == MapResults(categories_input.val.values, Category_from)
        date == FieldValue(form, "Date")
        description == FieldValue(form, "Description")
        links == Form_get_field_as(form, "Links", "OptionalListField")
        timestamps_input ==
            Form_get_field_as(form, "Timestamps", "OptionalMultilineListField")
        timestamps == MapResults(timestamps_input.val.values, TimestampUnwrap)
        nist_notes == FieldValue(form, "NIST Notes")
        video_people == MergePeople(form, people, pairs, <<>>)
        nist_files_input ==
            Form_get_field_as(form, "NIST Files", "OptionalMultilineListField")
    IN  IF ~broadcasts_input.ok THEN broadcasts_input
        ELSE IF ~broadcasts.ok THEN broadcasts
        ELSE IF ~title.ok THEN title
        ELSE IF ~categories_input.ok THEN categories_input
        ELSE IF ~categories.ok THEN categories
        ELSE IF ~date.ok THEN date
        ELSE IF ~description.ok THEN description
        ELSE IF ~links.ok THEN links
        ELSE IF ~timestamps_input.ok THEN timestamps_input
        ELSE IF ~timestamps.ok THEN timestamps
        ELSE IF ~nist_notes.ok THEN nist_notes
        ELSE IF ~video_people.ok THEN video_people
        ELSE IF ~nist_files_input.ok THEN nist_files_input
        ELSE IF ~NaiveDate_from_str(date.val).ok THEN NaiveDate_from_str(date.val)
        ELSE Ok(MasterVideo(categories.val, Some(NaiveDate_from_str(date.val).val),
                    description.val, id, links.val.values, broadcasts.val,
                    PathsWithSizeZero(nist_files_input.val.values),
                    IF nist_notes.val = "" THEN None ELSE Some(nist_notes.val),
                    video_people.val, timestamps.val, title.val))

\* ------------------------------------------------------------------------
\* Persistence (db/src/lib.rs).  A database is a record of tables; a table
\* is the sequence of its rows in insertion order, an association table a
\* set of pairs, and serial[t] the last id the SERIAL column of t handed out.
\* ------------------------------------------------------------------------

HasRow(table, id) == \E i \in 1..Len(table) : table[i].id = id
RowIndex(table, id) == CHOOSE i \in 1..Len(table) : table[i].id = id
RowOf(table, id) == table[RowIndex(table, id)]

\* INSERT ... VALUES (id, ...) ON CONFLICT (id) DO UPDATE SET ...;
\* Upsert_append is the INSERT without its ON CONFLICT clause on a table
\* that has no key
Upsert_append(table, row) == Append(table, row)

Upsert(table, row) ==
    IF HasRow(table, row.id)
    THEN [table EXCEPT ![RowIndex(table, row.id)] = row]
    ELSE Append(table, row)

\* rows of a table in ORDER BY id order
RECURSIVE OrderById(_)
OrderById(table) ==
    IF Len(table) = 0 THEN <<>>
    ELSE LET least == CHOOSE i \in 1..Len(table) :
                          \A j \in 1..Len(table) :
                              table[i].id < table[j].id \/ (table[i].id = table[j].id /\ i <= j)
         IN  <<table[least]>>
                 \o OrderById([k \in 1..(Len(table) - 1) |->
                                  IF k < least THEN table[k] ELSE table[k + 1]])

\* rows of a table that satisfy a test, in table order
RowsWhere(table, Test(_)) ==
    LET idx == {i \in 1..Len(table) : Test(table[i])}
        Nth(n) == CHOOSE i \in idx : Cardinality({j \in idx : j < i}) = n - 1
    IN  [n \in 1..Cardinality(idx) |-> table[Nth(n)]]

\* get_news_networks
get_news_networks(d) == d.news_networks

\* get_news_network
get_news_network(d, id) ==
    IF HasRow(d.news_networks, id) THEN Ok(RowOf(d.news_networks, id))
    ELSE Err("RowNotFound", "news_networks")

AffiliateOfRow(d, row) ==
    NewsAffiliate(row.id, row.name, row.description, row.region,
                  RowOf(d.news_networks, row.news_network_id))

\* get_news_affiliates
get_news_affiliates(d) ==
    [i \in 1..Len(d.news_affiliates) |-> AffiliateOfRow(d, d.news_affiliates[i])]

\* get_news_affiliate
get_news_affiliate(d, id) ==
    IF HasRow(d.news_affiliates, id) THEN Ok(AffiliateOfRow(d, RowOf(d.news_affiliates, id)))
    ELSE Err("RowNotFound", "news_affiliates")

\* get_news_broadcast
get_news_broadcast(d, id) ==
    IF ~HasRow(d.news_broadcasts, id) THEN Err("RowNotFound", "news_broadcasts")
    ELSE LET row == RowOf(d.news_broadcasts, id)
         IN  Ok(NewsBroadcast(row.id, row.date, row.description,
                    IF row.news_network_id = None THEN None
                    ELSE Some(RowOf(d.news_networks, row.news_network_id[1])),
                    IF row.news_affiliate_id = None THEN None
                    ELSE Some(AffiliateOfRow(d, RowOf(d.news_affiliates,
                                                      row.news_affiliate_id[1])))))

\* the two `if let Some(..)` pushes of get_news_broadcasts for one row
BroadcastsOfRow(d, row) ==
    (IF row.news_network_id # None
     THEN <<NewsBroadcast(row.id, row.date, row.description,
                Some(RowOf(d.news_networks, row.news_network_id[1])), None)>>
     ELSE <<>>)
        \o (IF row.news_affiliate_id # None
            THEN <<NewsBroadcast(row.id, row.date, row.description, None,
                       Some(AffiliateOfRow(d, RowOf(d.news_affiliates,
                                                    row.news_affiliate_id[1]))))>>
            ELSE <<>>)

RECURSIVE BroadcastsOfRows(_, _)
BroadcastsOfRows(d, rows) ==
    IF Len(rows) = 0 THEN <<>>
    ELSE BroadcastsOfRow(d, rows[1]) \o BroadcastsOfRows(d, Tail(rows))

\* get_news_broadcasts
get_news_broadcasts(d) == BroadcastsOfRows(d, OrderById(d.news_broadcasts))

\* get_people
get_people(d) == d.people

\* the `if .. else if ..` push of get_master_video for one joined broadcast row
MasterBroadcastOfRow(d, row) ==
    IF row.news_network_id # None
    THEN <<NewsBroadcast(row.id, row.date, row.description,
               Some(RowOf(d.news_networks, row.news_network_id[1])), None)>>
    ELSE IF row.news_affiliate_id # None
    THEN <<NewsBroadcast(row.id, row.date, row.description, None,
               Some(AffiliateOfRow(d, RowOf(d.news_affiliates, row.news_affiliate_id[1]))))>>
    ELSE <<>>

RECURSIVE MasterBroadcastsOfRows(_, _)
MasterBroadcastsOfRows(d, rows) ==
    IF Len(rows) = 0 THEN <<>>
    ELSE MasterBroadcastOfRow(d, rows[1]) \o MasterBroadcastsOfRows(d, Tail(rows))

\* get_master_video
get_master_video(d, id) ==
    IF ~HasRow(d.master_videos, id) THEN Err("RowNotFound", "master_videos")
    ELSE LET row == RowOf(d.master_videos, id)
             OfMaster(t) == t.master_video_id = id
             Joined(b) == <<id, b.id>> \in d.master_videos_news_broadcasts
             Appears(p) == <<id, p.id>> \in d.master_videos_people
             Attached(f) == <<id, f.id>> \in d.master_videos_release_files
             stamps == RowsWhere(d.event_timestamps, OfMaster)
             files == RowsWhere(d.release_files, Attached)
         IN  Ok(MasterVideo(row.categories, row.date, row.description, row.id, row.links,
                    MasterBroadcastsOfRows(d, RowsWhere(d.news_broadcasts, Joined)),
                    [i \in 1..Len(files) |-> <<files[i].path, files[i].size>>],
                    row.nist_notes,
                    RowsWhere(d.people, Appears),
                    [i \in 1..Len(stamps) |->
                        EventTimestamp(stamps[i].id, stamps[i].description,
                            stamps[i].timestamp, stamps[i].event_type,
                            stamps[i].time_of_day)],
                    row.title))

\* get_master_videos
get_master_videos(d) ==
    [i \in 1..Len(d.master_videos) |-> get_master_video(d, d.master_videos[i].id).val]

\* get_video: the master is fetched by the id of the video row
get_video(d, id) ==
    IF ~HasRow(d.videos, id) THEN Err("RowNotFound", "videos")
    ELSE LET row == RowOf(d.videos, id)
             master == get_master_video(d, row.id)
         IN  IF ~master.ok THEN master
             ELSE Ok(Video(row.channel_username, row.description, row.duration, row.id,
                           row.is_primary, row.link, master.val, row.title))

\* get_nist_videos
get_nist_videos(d) == d.nist_videos

\* get_nist_tapes
get_nist_tapes(d) ==
    LET rows == OrderById(d.nist_tapes)
    IN  [i \in 1..Len(rows) |->
            LET Attached(f) == <<rows[i].id, f.id>> \in d.nist_tapes_release_files
                files == RowsWhere(d.release_files, Attached)
            IN  [tape_id |-> rows[i].id, tape_name |-> rows[i].tape_name,
                 release_files |-> [k \in 1..Len(files) |-> <<files[k].path, files[k].size>>]]]

\* the outcome of a save: the Result it returns and the database it leaves
Saved(res, d) == [res |-> res, db |-> d]

\* INSERT without id ... RETURNING id: the next value of the table's sequence
NextId(d, t) == d.serial[t] + 1
Advance(d, t) == [d EXCEPT !.serial[t] = @ + 1]

\* save_news_network
save_news_network(d, network) ==
    LET network_id == IF network.id = 0 THEN NextId(d, "news_networks") ELSE network.id
        row == NewsNetwork(network_id, network.name, network.description)
        d1 == IF network.id = 0
              THEN [Advance(d, "news_networks") EXCEPT !.news_networks = Append(@, row)]
              ELSE [d EXCEPT !.news_networks = Upsert(@, row)]
    IN  Saved(Ok([network EXCEPT !.id = network_id]), d1)

\* save_news_affiliate
save_news_affiliate(d, affiliate) ==
    LET affiliate_id == IF affiliate.id = 0 THEN NextId(d, "news_affiliates") ELSE affiliate.id
        row == [id |-> affiliate_id, name |-> affiliate.name,
                description |-> affiliate.description, region |-> affiliate.region,
                news_network_id |-> affiliate.network.id]
        d1 == IF affiliate.id = 0
              THEN [Advance(d, "news_affiliates") EXCEPT !.news_affiliates = Append(@, row)]
              ELSE [d EXCEPT !.news_affiliates = Upsert(@, row)]
    IN  Saved(Ok([affiliate EXCEPT !.id = affiliate_id]), d1)

\* save_news_broadcast; save_news_broadcast_lenient is a save that takes the
\* network side when both sides are given
save_news_broadcast_lenient(d, broadcast) ==
    IF broadcast.news_network = None /\ broadcast.news_affiliate = None
    THEN Saved(Err("NewsBroadcastDoesNotHaveNetworkOrAffiliate", ""), d)
    ELSE LET broadcast_id ==
                 IF broadcast.id = 0 THEN NextId(d, "news_broadcasts") ELSE broadcast.id
             row == [id |-> broadcast_id, date |-> broadcast.date,
                     description |-> broadcast.description,
                     news_network_id |->
                         IF broadcast.news_network # None
                         THEN Some(broadcast.news_network[1].id) ELSE None,
                     news_affiliate_id |->
                         IF broadcast.news_network = None
                         THEN Some(broadcast.news_affiliate[1].id) ELSE None]
         IN  Saved(Ok([broadcast EXCEPT !.id = broadcast_id]),
                   [d EXCEPT !.news_broadcasts = Upsert(@, row)])

save_news_broadcast(d, broadcast) ==
    IF broadcast.news_network # None /\ broadcast.news_affiliate # None
    THEN Saved(Err("NewsBroadcastCannotHaveNetworkAndAffiliate", ""), d)
    ELSE IF broadcast.news_network = None /\ broadcast.news_affiliate = None
    THEN Saved(Err("NewsBroadcastDoesNotHaveNetworkOrAffiliate", ""), d)
    ELSE LET broadcast_id ==
                 IF broadcast.id = 0 THEN NextId(d, "news_broadcasts") ELSE broadcast.id
             fresh == [id |-> broadcast_id, date |-> broadcast.date,
                       description |-> broadcast.description,
                       news_network_id |->
                           IF broadcast.news_network # None
                           THEN Some(broadcast.news_network[1].id) ELSE None,
                       news_affiliate_id |->
                           IF broadcast.news_network = None
                           THEN Some(broadcast.news_affiliate[1].id) ELSE None]
             \* ON CONFLICT (id) DO UPDATE SET leaves the other side's column as it was
             row == IF broadcast.id # 0 /\ HasRow(d.news_broadcasts, broadcast.id)
                    THEN LET old == RowOf(d.news_broadcasts, broadcast.id)
                         IN  IF broadcast.news_network # None
                             THEN [fresh EXCEPT !.news_affiliate_id = old.news_affiliate_id]
                             ELSE [fresh EXCEPT !.news_network_id = old.news_network_id]
                    ELSE fresh
             d1 == IF broadcast.id = 0
                   THEN [Advance(d, "news_broadcasts") EXCEPT
                            !.news_broadcasts = Append(@, row)]
                   ELSE [d EXCEPT !.news_broadcasts = Upsert(@, row)]
         IN  Saved(Ok([broadcast EXCEPT !.id = broadcast_id]), d1)

\* the `for timestamp in updated_video.timestamps.iter_mut()` loop: the database
\* and the timestamps with their ids filled in
RECURSIVE SaveTimestamps(_, _, _, _)
SaveTimestamps(d, video_id, timestamps, done) ==
    IF Len(timestamps) = 0 THEN [db |-> d, timestamps |-> done]
    ELSE LET t == timestamps[1]
             id == IF t.id = 0 THEN NextId(d, "event_timestamps") ELSE t.id
             row == [id |-> id, description |-> t.description, timestamp |-> t.timestamp,
                     event_type |-> t.event_type, time_of_day |-> t.time_of_day,
                     master_video_id |-> video_id]
             d1 == IF t.id = 0
                   THEN [Advance(d, "event_timestamps") EXCEPT
                            !.event_timestamps = Append(@, row)]
                   ELSE [d EXCEPT !.event_timestamps = Upsert(@, row)]
         IN  SaveTimestamps(d1, video_id, Tail(timestamps), Append(done, [t EXCEPT !.id = id]))

\* the `for broadcast in video.news_broadcasts.iter()` loop: the columns are
\* (master_video_id, news_broadcast_id), the values (broadcast.id, video_id)
SaveBroadcastLinks(d, video_id, news_broadcasts) ==
    [d EXCEPT !.master_videos_news_broadcasts =
        @ \cup {<<news_broadcasts[i].id, video_id>> : i \in 1..Len(news_broadcasts)}]

\* the `for person in updated_video.people.iter_mut()` loop
RECURSIVE SavePeople(_, _, _, _)
SavePeople(d, video_id, people, done) ==
    IF Len(people) = 0 THEN [db |-> d, people |-> done]
    ELSE LET person == people[1]
             Named(row) == row.name = person.name
             known == AnyItem(d.people, Named)
             id == IF known THEN FirstWhere(d.people, Named).id ELSE NextId(d, "people")
             d1 == IF known THEN d
                   ELSE [Advance(d, "people") EXCEPT
                            !.people = Append(@, Person(id, person.name, None, None,
                                                         person.types))]
             d2 == [d1 EXCEPT !.master_videos_people = @ \cup {<<video_id, id>>}]
         IN  SavePeople(d2, video_id, Tail(people), Append(done, [person EXCEPT !.id = id]))

\* the `for i in 0..video.nist_files.len()` loop: fetch_one fails on an unknown path
RECURSIVE SaveFiles(_, _, _, _)
SaveFiles(d, video_id, nist_files, done) ==
    IF Len(nist_files) = 0 THEN [ok |-> TRUE, db |-> d, nist_files |-> done]
    ELSE LET path == nist_files[1][1]
             AtPath(row) == row.path = path
         IN  IF ~AnyItem(d.release_files, AtPath)
             THEN [ok |-> FALSE, db |-> d, nist_files |-> done]
             ELSE LET row == FirstWhere(d.release_files, AtPath)
                      d1 == [d EXCEPT !.master_videos_release_files =
                                @ \cup {<<video_id, row.id>>}]
                  IN  SaveFiles(d1, video_id, Tail(nist_files),
                                Append(done, <<path, row.size>>))

\* save_master_video: one transaction, rolled back when a statement fails
save_master_video(d, video) ==
    LET video_id == IF video.id = 0 THEN NextId(d, "master_videos") ELSE video.id
        row == [id |-> video_id, categories |-> video.categories, title |-> video.title,
                date |-> video.date, description |-> video.description,
                links |-> video.links, nist_notes |-> video.nist_notes]
        d1 == IF video.id = 0
              THEN [Advance(d, "master_videos") EXCEPT !.master_videos = Append(@, row)]
              ELSE [d EXCEPT !.master_videos = Upsert(@, row)]
        stamps == SaveTimestamps(d1, video_id, video.timestamps, <<>>)
        d3 == SaveBroadcastLinks(stamps.db, video_id, video.news_broadcasts)
        persons == SavePeople(d3, video_id, video.people, <<>>)
        files == SaveFiles(persons.db, video_id, video.nist_files, <<>>)
    IN  IF ~files.ok THEN Saved(Err("RowNotFound", "release_files"), d)
        ELSE Saved(Ok([video EXCEPT !.id = video_id, !.timestamps = stamps.timestamps,
                                    !.people = persons.people,
                                    !.nist_files = files.nist_files]),
                   files.db)

\* save_video
save_video(d, video) ==
    LET video_id == IF video.id = 0 THEN NextId(d, "videos") ELSE video.id
        fresh == [id |-> video_id, channel_username |-> video.channel_username,
                  description |-> video.description, duration |-> video.duration,
                  is_primary |-> video.is_primary, link |-> video.link,
                  master_id |-> video.master.id, title |-> video.title]
        \* ON CONFLICT (id) DO UPDATE SET does not name channel_username
        row == IF video.id # 0 /\ HasRow(d.videos, video.id)
               THEN [fresh EXCEPT !.channel_username =
                        RowOf(d.videos, video.id).channel_username]
               ELSE fresh
        d1 == IF video.id = 0
              THEN [Advance(d, "videos") EXCEPT !.videos = Append(@, row)]
              ELSE [d EXCEPT !.videos = Upsert(@, row)]
    IN  Saved(Ok([video EXCEPT !.id = video_id]), d1)

\* save_nist_tape_files without its DELETE statement
save_nist_tape_files_keep(d, tape_id, files) ==
    LET Unknown(i) == \A k \in 1..Len(d.release_files) : d.release_files[k].path # files[i][1]
        IdOf(i) == LET AtPath(row) == row.path = files[i][1]
                   IN  FirstWhere(d.release_files, AtPath).id
        d1 == [d EXCEPT !.nist_tapes_release_files =
                  @ \cup {<<tape_id, IdOf(i)>> : i \in 1..Len(files)}]
        IsTape(t) == t.tape_id = tape_id
    IN  IF \E i \in 1..Len(files) : Unknown(i)
        THEN Saved(Err("RowNotFound", "release_files"), d)
        ELSE IF ~AnyItem(get_nist_tapes(d1), IsTape)
        THEN Saved(Err("NistTapeNotFound", ""), d1)
        ELSE Saved(Ok(FirstWhere(get_nist_tapes(d1), IsTape)), d1)

\* save_nist_tape_files: one transaction, rolled back when a path is unknown
save_nist_tape_files(d, tape_id, files) ==
    LET Unknown(i) == \A k \in 1..Len(d.release_files) : d.release_files[k].path # files[i][1]
        IdOf(i) == LET AtPath(row) == row.path = files[i][1]
                   IN  FirstWhere(d.release_files, AtPath).id
        d1 == [d EXCEPT !.nist_tapes_release_files =
                  {pr \in @ : pr[1] # tape_id}
                      \cup {<<tape_id, IdOf(i)>> : i \in 1..Len(files)}]
        IsTape(t) == t.tape_id = tape_id
    IN  IF \E i \in 1..Len(files) : Unknown(i)
        THEN Saved(Err("RowNotFound", "release_files"), d)
        ELSE IF ~AnyItem(get_nist_tapes(d1), IsTape)
        THEN Saved(Err("NistTapeNotFound", ""), d1)
        ELSE Saved(Ok(FirstWhere(get_nist_tapes(d1), IsTape)), d1)

\* save_nist_video
save_nist_video(d, id, is_missing, additional_notes) ==
    LET d1 == [d EXCEPT !.nist_videos =
                  [i \in 1..Len(@) |->
                      IF @[i].video_id = id
                      THEN [@[i] EXCEPT !.is_missing = is_missing,
                                        !.additional_notes = Some(additional_notes)]
                      ELSE @[i]]]
        IsVideo(v) == v.video_id = id
    IN  IF ~AnyItem(get_nist_videos(d1), IsVideo)
        THEN Saved(Err("NistVideoNotFound", ""), d1)
        ELSE Saved(Ok(FirstWhere(get_nist_videos(d1), IsVideo)), d1)

\* ------------------------------------------------------------------------
\* State
\* ------------------------------------------------------------------------

VARIABLES
    pc,         \* position of the running operation
    field,      \* a field object (Box<dyn FormField>) under construction
    fragment,   \* the text of one section, as handed to Kind::from_input_str
    parsed,     \* Result<Kind, FormError> returned by Kind::from_input_str
    db,         \* the database behind db::get_* and db::save_*
    cmd,        \* the command being run: entity, add or edit, input mode, id
    original,   \* the record the command fetched or defaulted, before editing
    template,   \* form.as_string(): the text handed to the editor
    editor,     \* what Editor::edit (or read_to_string) returned: err, none, some
    text,       \* the completed form text
    form,       \* Result<Form, FormError> of Form::from_*_str
    built,      \* Result of *_from_form
    saves,      \* db::save_* calls made by the command
    outcome,    \* Result<()> the command returned
    tmp_file,   \* the content of the file at tmp_path (`.part`), None when absent
    target_file,\* the content of the file at target_path, None when absent
    download,   \* the running download_file call: position and locals
    server,     \* how the remote server treats a Range header
    returned,   \* how the last download_file call ended
    calls       \* download_file calls made so far

fieldVars == <<field, fragment, parsed>>
sessionVars == <<db, cmd, original, template, editor, text, form, built, saves, outcome>>
downloadVars == <<tmp_file, target_file, download, server, returned, calls>>
vars == <<pc, field, fragment, parsed, db, cmd, original, template, editor, text, form,
          built, saves, outcome, tmp_file, target_file, download, server, returned, calls>>

\* no download_file call is running
NoCall == [at |-> "idle", start |-> 0, range |-> None, response |-> "", writer |-> ""]

\* the torrents directory is empty and nothing is being downloaded
NotDownloading ==
    /\ tmp_file = None
    /\ target_file = None
    /\ download = NoCall
    /\ server = "ranges"
    /\ returned = "none"
    /\ calls = 0

\* ------------------------------------------------------------------------
\* The archive the commands run against
\* ------------------------------------------------------------------------

Impact == EventTimestamp(1, "First impact", PgInterval_try_from(parse_duration("00:01:00")),
                         "Wtc1Impact", Some(<<8, 46>>))

Archive ==
    [news_networks |->
        <<NewsNetwork(1, "ABC News", "National ABC News coverage"),
          NewsNetwork(2, "CNN", "Cable News Network")>>,
     news_affiliates |->
        <<[id |-> 1, name |-> "WABC-TV", description |-> "ABC in New York",
           region |-> "NYC", news_network_id |-> 1]>>,
     news_broadcasts |->
        <<[id |-> 1, date |-> NaiveDate(2001, 9, 11), description |-> "Morning show",
           news_network_id |-> None, news_affiliate_id |-> Some(1)],
          [id |-> 2, date |-> NaiveDate(2001, 9, 11), description |-> "Special report",
           news_network_id |-> Some(1), news_affiliate_id |-> None]>>,
     people |->
        <<Person(1, "John DelGiorno", Some("WABC helicopter reporter"),
                 Some("Aboard Chopper 7"), <<"Reporter">>),
          Person(2, "Lori Stokes", None, None, <<"Reporter">>),
          Person(3, "Steve Silva", None, None, <<"Eyewitness">>)>>,
     master_videos |->
        <<[id |-> 1, categories |-> <<"News">>, title |-> "WABC Live Coverage",
           date |-> Some(NaiveDate(2001, 9, 11)), description |-> "Live coverage",
           links |-> <<"https://archive.org/details/wabc">>, nist_notes |-> Some("Tape 12")],
          [id |-> 2, categories |-> <<"AmateurFootage">>, title |-> "Steve Silva Footage",
           date |-> Some(NaiveDate(2001, 9, 11)), description |-> "Street footage",
           links |-> <<>>, nist_notes |-> None]>>,
     event_timestamps |->
        <<[id |-> 1, description |-> Impact.description, timestamp |-> Impact.timestamp,
           event_type |-> Impact.event_type, time_of_day |-> Impact.time_of_day,
           master_video_id |-> 1]>>,
     master_videos_news_broadcasts |-> {<<1, 1>>},
     master_videos_people |-> {<<1, 1>>, <<2, 3>>},
     release_files |->
        <<[id |-> 1, path |-> "42A0001.avi", size |-> 100],
          [id |-> 2, path |-> "42A0002.avi", size |-> 200]>>,
     master_videos_release_files |-> {<<1, 1>>},
     videos |->
        <<[id |-> 1, channel_username |-> "wabc", description |-> Some("Part one"),
           duration |-> PgInterval_try_from(parse_duration("00:10:00")),
           is_primary |-> TRUE, link |-> "https://youtu.be/a1", master_id |-> 1,
           title |-> "WABC Live Part 1"],
          [id |-> 2, channel_username |-> "wabc", description |-> None,
           duration |-> PgInterval_try_from(parse_duration("00:05:30")),
           is_primary |-> FALSE, link |-> "https://youtu.be/a2", master_id |-> 1,
           title |-> "WABC Live Part 2"]>>,
     nist_videos |->
        <<[video_id |-> 1, video_title |-> "WABC Dub 5", is_missing |-> FALSE,
           additional_notes |-> None],
          [video_id |-> 2, video_title |-> "NBC Dub 7", is_missing |-> TRUE,
           additional_notes |-> Some("Never released")]>>,
     nist_tapes |->
        <<[id |-> 1, tape_name |-> "WABC Dub 5 Tape 1", video_id |-> 1],
          [id |-> 2, tape_name |-> "NBC Dub 7 Tape 1", video_id |-> 2]>>,
     nist_tapes_release_files |-> {<<1, 1>>},
     serial |->
        [news_networks |-> 2, news_affiliates |-> 1, news_broadcasts |-> 2, people |-> 3,
         master_videos |-> 2, event_timestamps |-> 1, videos |-> 2]]

\* ------------------------------------------------------------------------
\* The add and edit commands (tools/src/cmd)
\* ------------------------------------------------------------------------

Entities ==
    {"master_videos", "videos", "news_networks", "news_affiliates", "news_broadcasts",
     "nist_tapes", "nist_videos"}

\* entities whose command module has an add(path: Option<PathBuf>)
Addable ==
    {"master_videos", "videos", "news_networks", "news_affiliates", "news_broadcasts"}

\* edit commands that ask "Proceed? [y/n]" before opening the editor
Prompted == {"nist_tapes", "nist_videos"}

\* ids the user passes to edit: rows of the archive, the id the next new row
\* of most tables gets, and one that names no row
EditIds == {1, 2, 3, 9}

Command(entity, op, mode, id) == [entity |-> entity, op |-> op, mode |-> mode, id |-> id]

Commands ==
    {Command(e, "add", m, 0) : e \in Addable, m \in {"editor", "path"}}
        \cup {Command(e, "edit", "editor", id) : e \in Entities, id \in EditIds}

\* the record an add command starts from
DefaultOf(entity) ==
    CASE entity = "master_videos" -> MasterVideo_default
      [] entity = "videos" -> Video_default
      [] entity = "news_networks" -> NewsNetwork_default
      [] entity = "news_affiliates" -> NewsAffiliate_default
      [] entity = "news_broadcasts" -> NewsBroadcast_default

\* the record an edit command fetches
Fetch(d, entity, id) ==
    CASE entity = "master_videos" -> get_master_video(d, id)
      [] entity = "videos" -> get_video(d, id)
      [] entity = "news_networks" -> get_news_network(d, id)
      [] entity = "news_affiliates" -> get_news_affiliate(d, id)
      [] entity = "news_broadcasts" -> get_news_broadcast(d, id)
      [] entity = "nist_tapes" ->
            LET IsTape(t) == t.tape_id = id
            IN  IF AnyItem(get_nist_tapes(d), IsTape)
                THEN Ok(FirstWhere(get_nist_tapes(d), IsTape))
                ELSE Err("Could not find tape with ID", id)
      [] entity = "nist_videos" ->
            LET IsVideo(v) == v.video_id = id
            IN  IF AnyItem(get_nist_videos(d), IsVideo)
                THEN Ok(FirstWhere(get_nist_videos(d), IsVideo))
                ELSE Err("Could not find video with ID", id)

\* Form::from(&record)
FormFrom(entity, record) ==
    CASE entity = "master_videos" -> Form_from_MasterVideo(record)
      [] entity = "videos" -> Form_from_Video(record)
      [] entity = "news_networks" -> Form_from_NewsNetwork(record)
      [] entity = "news_affiliates" -> Form_from_NewsAffiliate(record)
      [] entity = "news_broadcasts" -> Form_from_NewsBroadcast(record)
      [] entity = "nist_tapes" -> Form_from_NistTape(record)
      [] entity = "nist_videos" -> Form_from_NistVideo(record)

MasterTitle(m) == m.title
NameOf(row) == row.name

\* the form.add_choices(..)? calls of an add command in editor mode
InjectChoices(d, entity, f) ==
    CASE entity = "master_videos" ->
            Form_add_choices(f, "News Broadcasts",
                             MapSeq(get_news_broadcasts(d), NewsBroadcast_to_string))
      [] entity = "videos" ->
            Form_add_choices(f, "Master", MapSeq(get_master_videos(d), MasterTitle))
      [] entity = "news_broadcasts" ->
            LET first == Form_add_choices(f, "Network", MapSeq(get_news_networks(d), NameOf))
            IN  IF ~first.ok THEN first
                ELSE Form_add_choices(first.val, "Affiliate",
                                      MapSeq(get_news_affiliates(d), NameOf))
      [] OTHER -> Ok(f)

\* Form::from_*_str of the entity
FormFromStr(entity, s) ==
    CASE entity = "master_videos" -> from_master_video_str(s)
      [] entity = "videos" -> from_video_str(s)
      [] entity = "news_networks" -> from_news_network_str(s)
      [] entity = "news_affiliates" -> from_news_affiliate_str(s)
      [] entity = "news_broadcasts" -> from_news_broadcast_str(s)
      [] entity = "nist_tapes" -> from_nist_tape_str(s)
      [] entity = "nist_videos" -> from_nist_video_str(s)

\* the id handed to *_from_form: 0 in add, the fetched record's id in edit;
\* RecordId_assigned is a caller that numbers a new record itself
RecordId_assigned(c, record) == IF c.op = "add" THEN 1 ELSE record.id

RecordId(c, record) == IF c.op = "add" THEN 0 ELSE record.id

\* the *_from_form call of the command, with the reference data it fetched
FromForm(d, c, record, f) ==
    CASE c.entity = "master_videos" ->
            master_video_from_form(RecordId(c, record), f, get_news_broadcasts(d),
                                   get_people(d))
      [] c.entity = "videos" ->
            video_from_form(RecordId(c, record), f, get_master_videos(d))
      [] c.entity = "news_networks" -> news_network_from_form(RecordId(c, record), f)
      [] c.entity = "news_affiliates" ->
            news_affiliate_from_form(RecordId(c, record), f, get_news_networks(d))
      [] c.entity = "news_broadcasts" ->
            news_broadcast_from_form(RecordId(c, record), f, get_news_networks(d),
                                     get_news_affiliates(d))
      [] c.entity = "nist_tapes" -> get_release_files_from_form(f)
      [] c.entity = "nist_videos" -> get_missing_and_additional_notes_field(f)

\* the db::save_* call of the command
SaveOf(d, c, record, value) ==
    CASE c.entity = "master_videos" -> save_master_video(d, value)
      [] c.entity = "videos" -> save_video(d, value)
      [] c.entity = "news_networks" -> save_news_network(d, value)
      [] c.entity = "news_affiliates" -> save_news_affiliate(d, value)
      [] c.entity = "news_broadcasts" -> save_news_broadcast(d, value)
      [] c.entity = "nist_tapes" -> save_nist_tape_files(d, record.tape_id, value)
      [] c.entity = "nist_videos" ->
            save_nist_video(d, record.video_id, value[1], value[2])

EditorFailed(entity) ==
    Err(IF entity = "master_videos"
        THEN "An unknown error occurred when editing the master video"
        ELSE "An unknown error occurred when editing the video", "")

\* the `else` arm of `if let Some(cf) = completed_form`
WhenEditorNone(c) ==
    IF c.entity = "master_videos" /\ c.op = "add" THEN EditorFailed(c.entity)
    ELSE Ok(NoValue)

\* the `Err(_)` arm of `match Editor::new().edit(..)`
WhenEditorErr(c) ==
    IF c.entity = "master_videos" /\ c.op = "add" THEN Ok(NoValue)
    ELSE EditorFailed(c.entity)

\* the `?` operator: an Err (or a panic) ends the command there
Fails(result) == ~result.ok

\* ------------------------------------------------------------------------
\* Field-level operations: Kind::new, add_choices, as_string, from_input_str
\* ------------------------------------------------------------------------

Kinds ==
    {"TextField", "MultilineTextField", "OptionalMultilineTextField",
     "OptionalChoiceListField", "ListField", "OptionalListField",
     "MultilineListField", "OptionalMultilineListField", "ChoiceField",
     "OptionalChoiceField", "BooleanField"}

RequiredKinds ==
    {"TextField", "MultilineTextField", "ListField", "MultilineListField",
     "ChoiceField", "BooleanField"}

OptionalKinds ==
    {"OptionalMultilineTextField", "OptionalListField", "OptionalMultilineListField",
     "OptionalChoiceField", "OptionalChoiceListField"}

StringKinds ==
    {"TextField", "MultilineTextField", "OptionalMultilineTextField",
     "ChoiceField", "OptionalChoiceField"}

ListKinds ==
    {"OptionalChoiceListField", "ListField", "OptionalListField",
     "MultilineListField", "OptionalMultilineListField"}

ChoiceKinds == {"ChoiceField", "OptionalChoiceField", "OptionalChoiceListField"}

\* labels the codecs give their fields
FieldNames == {"Name", "News Broadcasts"}

\* values the codecs put into fields: names, titles, display strings
StringValues == {"", "ABC News", "WABC-TV"}
ListValues == {<<>>, <<"ABC News">>, <<"ABC News", "WABC-TV">>}

\* candidate lists the commands inject: display strings of reference data
RECURSIVE SeqsUpTo(_, _)
SeqsUpTo(S, n) ==
    IF n = 0 THEN {<<>>}
    ELSE LET shorter == SeqsUpTo(S, n - 1)
         IN  shorter \cup {Append(q, x) : q \in shorter, x \in S}

Candidates == {"ABC News", "WABC-TV"}
CandidateLists == SeqsUpTo(Candidates, MaxChoices)

\* runs of whitespace an editor can leave behind
RECURSIVE BlankRuns(_)
BlankRuns(n) ==
    IF n = 0 THEN {""}
    ELSE LET shorter == BlankRuns(n - 1)
         IN  shorter \cup {w \o c : w \in shorter, c \in Whitespace}

\* what the user may leave after the colon of a section
Bodies == {"", "ABC News", "ABC News; WABC-TV", "ABC News\nWABC-TV", "Yes", "no", "maybe"}

\* sections a user can hand back for a field labelled name
Fragments(name) ==
    {name \o ":" \o w \o b : w \in BlankRuns(MaxBlank), b \in Bodies}
        \cup {b \o "\n" : b \in Bodies}

Kind_new(kind, name, value, values, flag) ==
    CASE kind \in StringKinds -> Field(kind, name, value, <<>>, <<>>, FALSE)
      [] kind \in ListKinds -> Field(kind, name, "", values, <<>>, FALSE)
      [] kind = "BooleanField" -> BooleanField_new(name, flag)

NewFields ==
    {Kind_new(k, n, v, <<>>, FALSE) : k \in StringKinds, n \in FieldNames, v \in StringValues}
        \cup {Kind_new(k, n, "", vs, FALSE) : k \in ListKinds, n \in FieldNames, vs \in ListValues}
        \cup {Kind_new("BooleanField", n, "", <<>>, b) : n \in FieldNames, b \in BOOLEAN}

FieldInit ==
    /\ pc = "new"
    /\ field \in NewFields
    /\ fragment = ""
    /\ parsed = Ok(NoValue)
    /\ db = Archive
    /\ cmd = NoValue
    /\ original = NoValue
    /\ template = ""
    /\ editor = "pending"
    /\ text = ""
    /\ form = Ok(NoValue)
    /\ built = Ok(NoValue)
    /\ saves = 0
    /\ outcome = Ok(NoValue)
    /\ NotDownloading

\* field.add_choices(choices)
FieldAddChoices ==
    /\ pc = "new"
    /\ field.kind \in ChoiceKinds
    /\ \E cs \in CandidateLists : field' = Field_add_choices(field, cs)
    /\ pc' = "choices"
    /\ UNCHANGED <<fragment, parsed>>
    /\ UNCHANGED sessionVars
    /\ UNCHANGED downloadVars

\* field.as_string()
FieldRender ==
    /\ pc \in {"new", "choices"}
    /\ fragment' = FormField_as_string(field)
    /\ pc' = "rendered"
    /\ UNCHANGED <<field, parsed>>
    /\ UNCHANGED sessionVars
    /\ UNCHANGED downloadVars

\* the user replaces the section
FieldEdit ==
    /\ pc = "rendered"
    /\ fragment' \in Fragments(field.name)
    /\ pc' = "edited"
    /\ UNCHANGED <<field, parsed>>
    /\ UNCHANGED sessionVars
    /\ UNCHANGED downloadVars

\* Kind::from_input_str(name, fragment)
FieldParse ==
    /\ pc \in {"rendered", "edited"}
    /\ parsed' = from_input_str(field.kind, field.name, fragment)
    /\ pc' = IF pc = "rendered" THEN "reparsed" ELSE "parsed"
    /\ UNCHANGED <<field, fragment>>
    /\ UNCHANGED sessionVars
    /\ UNCHANGED downloadVars

FieldNext == FieldAddChoices \/ FieldRender \/ FieldEdit \/ FieldParse

SpecField == FieldInit /\ [][FieldNext]_vars

\* ------------------------------------------------------------------------
\* What the user hands back: the completed form text
\* ------------------------------------------------------------------------

RoleLabels ==
    {"Eyewitnesses", "Fire", "Police", "Port Authority", "Reporters", "Survivors",
     "Victims", "Videographers"}

\* the label a section starts with
LabelOf(section) ==
    IF Contains(section, ":") THEN SubSeq(section, 1, Find(section, ":")) ELSE section

\* what the user may put in the place of a section
SectionOptions(label) ==
    CASE label = "News Broadcasts" ->
            {"News Broadcasts:", "News Broadcasts: ",
             "News Broadcasts: ABC News (2001-09-11)",
             "News Broadcasts: WABC-TV (2001-09-11); ABC News (2001-09-11)",
             "News Broadcasts: NBC (2001-09-11)"}
      [] label = "Title" -> {"Title:", "Title: Evening Footage"}
      [] label = "Categories" ->
            {"Categories:", "Categories: news; documentary", "Categories: survivor-account"}
      [] label = "Date" -> {"Date:", "Date: 2001-09-12", "Date: 12/09/2001"}
      [] label = "Description" ->
            {"Description:", "Description: One line", "Description:\nTwo\nlines"}
      [] label = "Links" -> {"Links:", "Links: https://a.org; https://b.org"}
      [] label = "Timestamps" ->
            {"Timestamps:", "Timestamps:\n00:01:00: First impact [0846] [wtc1-impact]",
             "Timestamps:\nnot a timestamp"}
      [] label = "NIST Notes" -> {"NIST Notes:", "NIST Notes:\nTape 12"}
      [] label \in RoleLabels ->
            {label \o ":", label \o ": John DelGiorno",
             label \o ": Alice; Alice; John DelGiorno"}
      [] label = "NIST Files" ->
            {"NIST Files:", "NIST Files:\n42A0001.avi\n42A0002.avi",
             "NIST Files:\n42A0002.avi", "NIST Files:\nmissing.avi"}
      [] label = "Network" -> {"Network:", "Network: ABC News", "Network: NBC"}
      [] label = "Affiliate" -> {"Affiliate:", "Affiliate: WABC-TV", "Affiliate: KTLA"}
      [] label = "Name" -> {"Name:", "Name: Fox News"}
      [] label = "Region" -> {"Region:", "Region: LA"}
      [] label = "Master" ->
            {"Master:", "Master: Steve Silva Footage", "Master: Unknown Footage"}
      [] label = "Channel" -> {"Channel: other"}
      [] label = "Link" -> {"Link: https://youtu.be/zz"}
      [] label = "Duration" -> {"Duration: 00:10:00", "Duration: 5m30s", "Duration: soon"}
      [] label = "Primary" -> {"Primary: Yes", "Primary: no", "Primary: maybe"}
      [] label = "Missing?" -> {"Missing?: Yes", "Missing?: no", "Missing?: maybe"}
      [] label = "Additional Notes" -> {"Additional Notes:", "Additional Notes:\nFound"}
      [] OTHER -> {label \o ":"}

\* a form filled in from scratch, as the user of add writes it
CompletedForm(entity) ==
    CASE entity = "master_videos" ->
            <<"News Broadcasts: ABC News (2001-09-11)", "Title: Evening Footage",
              "Categories: news", "Date: 2001-09-11", "Description:\nEvening coverage",
              "Links:", "Timestamps:", "NIST Notes:", "Eyewitnesses: Steve Silva", "Fire:",
              "Police:", "Port Authority:", "Reporters: John DelGiorno; Lori Stokes",
              "Survivors:", "Victims:", "Videographers: John DelGiorno",
              "NIST Files:\n42A0001.avi">>
      [] entity = "videos" ->
            <<"Master: WABC Live Coverage", "Title: WABC Live Part 3", "Channel: wabc",
              "Description:\nPart three", "Link: https://youtu.be/a3",
              "Duration: 00:07:00", "Primary: No">>
      [] entity = "news_networks" -> <<"Name: Fox News", "Description:\nFox News Channel">>
      [] entity = "news_affiliates" ->
            <<"Network: ABC News", "Name: KABC-TV", "Description:\nABC in Los Angeles",
              "Region: LA">>
      [] entity = "news_broadcasts" ->
            <<"Network: ABC News", "Affiliate:", "Date: 2001-09-12",
              "Description:\nEvening news">>

\* the sections with at most n of them replaced
RECURSIVE Edits(_, _)
Edits(parts, n) ==
    IF n = 0 THEN {parts}
    ELSE LET fewer == Edits(parts, n - 1)
         IN  fewer \cup
             UNION {UNION {{[q EXCEPT ![i] = o] : o \in SectionOptions(LabelOf(parts[i]))}
                           : i \in 1..Len(parts)}
                    : q \in fewer}

\* the texts a user can make of a form: sections replaced, a section added,
\* the last section deleted, a newline left at the end
TextsFrom(parts) ==
    {Join(q, "\n---\n") : q \in Edits(parts, MaxEdits)}
        \cup {Join(Append(parts, "Notes: extra"), "\n---\n"),
              Join(SubSeq(parts, 1, Len(parts) - 1), "\n---\n"),
              Join(parts, "\n---\n") \o "\n"}

\* the texts the editor can return for a command that showed shown: the text
\* as shown, the text with sections replaced, and a form written afresh, with
\* sections replaced too (in an edit, in the place of everything that was shown)
EditedTexts(c, shown) ==
    {shown} \cup TextsFrom(Split(shown, "\n---\n"))
        \cup (IF c.op = "add" \/ c.entity \in Addable
              THEN TextsFrom(CompletedForm(c.entity))
              ELSE {})

\* the texts a --path file can hold
FileTexts(c) == TextsFrom(CompletedForm(c.entity))

\* answers to "Proceed? [y/n]"
Answers == {"y\n", "Y\n", " y \n", "n\n", "yes\n", "\n"}

\* ------------------------------------------------------------------------
\* One run of an add or edit command
\* ------------------------------------------------------------------------

Init ==
    /\ pc = "idle"
    /\ field = NoValue
    /\ fragment = ""
    /\ parsed = Ok(NoValue)
    /\ db = Archive
    /\ cmd = NoValue
    /\ original = NoValue
    /\ template = ""
    /\ editor = "pending"
    /\ text = ""
    /\ form = Ok(NoValue)
    /\ built = Ok(NoValue)
    /\ saves = 0
    /\ outcome = Ok(NoValue)
    /\ NotDownloading

\* the command returns result; Return_and_save is a return that does not leave
\* the function but runs on to its save call
Return_and_save(result) ==
    /\ pc' = "save"
    /\ outcome' = result

Return(result) ==
    /\ pc' = "done"
    /\ outcome' = result

\* the command starts: it fetches its record and shows the form, or opens the file
Begin ==
    /\ pc = "idle"
    /\ \E c \in Commands :
        LET fetched == IF c.op = "add" THEN Ok(DefaultOf(c.entity))
                       ELSE Fetch(db, c.entity, c.id)
            shown == IF c.op = "add" /\ c.mode = "editor"
                     THEN InjectChoices(db, c.entity, FormFrom(c.entity, fetched.val))
                     ELSE IF c.mode = "editor" THEN Ok(FormFrom(c.entity, fetched.val))
                     ELSE Ok(Form_new)
        IN  /\ cmd' = c
            /\ IF Fails(fetched)
               THEN Return(fetched) /\ UNCHANGED <<original, template>>
               ELSE IF Fails(shown)
               THEN Return(shown) /\ original' = fetched.val /\ UNCHANGED template
               ELSE /\ original' = fetched.val
                    /\ template' = Form_as_string(shown.val)
                    /\ pc' = IF c.mode = "path" THEN "file"
                             ELSE IF c.entity \in Prompted THEN "prompt"
                             ELSE "editor"
                    /\ UNCHANGED outcome
    /\ UNCHANGED <<db, editor, text, form, built, saves>>
    /\ UNCHANGED fieldVars
    /\ UNCHANGED downloadVars

\* the user answers "Proceed? [y/n]"
Confirm ==
    /\ pc = "prompt"
    /\ \E input \in Answers :
        IF ToLowercase(Trim(input)) # "y"
        THEN Return(Ok(NoValue))
        ELSE pc' = "editor" /\ UNCHANGED outcome
    /\ UNCHANGED <<db, cmd, original, template, editor, text, form, built, saves>>
    /\ UNCHANGED fieldVars
    /\ UNCHANGED downloadVars

\* Editor::new().edit(&form.as_string()) returns Err(_)
EditorErr ==
    /\ pc = "editor"
    /\ editor' = "err"
    /\ Return(WhenEditorErr(cmd))
    /\ UNCHANGED <<db, cmd, original, template, text, form, built, saves>>
    /\ UNCHANGED fieldVars
    /\ UNCHANGED downloadVars

\* Editor::new().edit(&form.as_string()) returns Ok(None): the user quit without saving
EditorNone ==
    /\ pc = "editor"
    /\ editor' = "none"
    /\ Return(WhenEditorNone(cmd))
    /\ UNCHANGED <<db, cmd, original, template, text, form, built, saves>>
    /\ UNCHANGED fieldVars
    /\ UNCHANGED downloadVars

\* Editor::new().edit(&form.as_string()) returns Ok(Some(cf))
EditorSome ==
    /\ pc = "editor"
    /\ editor' = "some"
    /\ text' \in EditedTexts(cmd, template)
    /\ pc' = "parse"
    /\ UNCHANGED <<db, cmd, original, template, form, built, saves, outcome>>
    /\ UNCHANGED fieldVars
    /\ UNCHANGED downloadVars

\* std::fs::read_to_string(path)?
ReadFile ==
    /\ pc = "file"
    /\ \/ /\ editor' = "unreadable"
          /\ Return(Err("io::Error", ""))
          /\ UNCHANGED text
       \/ /\ editor' = "read"
          /\ text' \in FileTexts(cmd)
          /\ pc' = "parse"
          /\ UNCHANGED outcome
    /\ UNCHANGED <<db, cmd, original, template, form, built, saves>>
    /\ UNCHANGED fieldVars
    /\ UNCHANGED downloadVars

\* let form = Form::from_*_str(&cf)?
Parse ==
    /\ pc = "parse"
    /\ form' = FormFromStr(cmd.entity, text)
    /\ IF Fails(form') THEN Return(form') ELSE pc' = "build" /\ UNCHANGED outcome
    /\ UNCHANGED <<db, cmd, original, template, editor, text, built, saves>>
    /\ UNCHANGED fieldVars
    /\ UNCHANGED downloadVars

\* *_from_form(id, &form, ..)?
Build ==
    /\ pc = "build"
    /\ built' = FromForm(db, cmd, original, form.val)
    /\ IF Fails(built') THEN Return(built') ELSE pc' = "save" /\ UNCHANGED outcome
    /\ UNCHANGED <<db, cmd, original, template, editor, text, form, saves>>
    /\ UNCHANGED fieldVars
    /\ UNCHANGED downloadVars

\* let updated = db::save_*(..).await?; Ok(())
Save ==
    /\ pc = "save"
    /\ LET saved == SaveOf(db, cmd, original, built.val)
       IN  /\ db' = saved.db
           /\ Return(IF Fails(saved.res) THEN saved.res ELSE Ok(NoValue))
    /\ saves' = saves + 1
    /\ UNCHANGED <<cmd, original, template, editor, text, form, built>>
    /\ UNCHANGED fieldVars
    /\ UNCHANGED downloadVars

Next ==
    \/ Begin
    \/ Confirm
    \/ EditorErr
    \/ EditorNone
    \/ EditorSome
    \/ ReadFile
    \/ Parse
    \/ Build
    \/ Save

Spec == Init /\ [][Next]_vars

\* ------------------------------------------------------------------------
\* A sequence of commands, each run to its end before the next is started
\* ------------------------------------------------------------------------

\* the process has exited and the user starts another command on the database
\* the last one left
Again ==
    /\ pc = "done"
    /\ saves < MaxSaves
    /\ pc' = "idle"
    /\ cmd' = NoValue
    /\ original' = NoValue
    /\ template' = ""
    /\ editor' = "pending"
    /\ text' = ""
    /\ form' = Ok(NoValue)
    /\ built' = Ok(NoValue)
    /\ outcome' = Ok(NoValue)
    /\ UNCHANGED <<db, saves>>
    /\ UNCHANGED fieldVars
    /\ UNCHANGED downloadVars

NextSession == Next \/ Again

SpecSessions == Init /\ [][NextSession]_vars

\* ------------------------------------------------------------------------
\* Downloading one torrent file (tools/src/releases.rs)
\* ------------------------------------------------------------------------

\* the bytes the remote server holds at the URL
Remote == "abcd"

\* a server answers a Range header with 206 and the bytes asked for, or takes
\* no notice of it and answers 200 with the whole body
Servers == {"ranges", "ignores"}

DownloadInit ==
    /\ pc = "idle"
    /\ field = NoValue
    /\ fragment = ""
    /\ parsed = Ok(NoValue)
    /\ db = Archive
    /\ cmd = NoValue
    /\ original = NoValue
    /\ template = ""
    /\ editor = "pending"
    /\ text = ""
    /\ form = Ok(NoValue)
    /\ built = Ok(NoValue)
    /\ saves = 0
    /\ outcome = Ok(NoValue)
    /\ tmp_file = None
    /\ target_file = None
    /\ download = NoCall
    /\ server \in Servers
    /\ returned = "none"
    /\ calls = 0

\* download_file returns: its locals are dropped, and with them whatever the
\* BufWriter still held
DownloadReturn(result) ==
    /\ download' = NoCall
    /\ returned' = result

\* download_torrents calls download_file when target_path does not exist;
\* download_file takes start from the length of the `.part` file, if there is
\* one, and sets the Range header
DownloadCall ==
    /\ download.at = "idle"
    /\ calls < MaxCalls
    /\ target_file = None
    /\ download' = [at |-> "send",
                    start |-> IF tmp_file # None THEN Len(tmp_file[1]) ELSE 0,
                    range |-> IF tmp_file # None THEN Some(Len(tmp_file[1])) ELSE None,
                    response |-> "",
                    writer |-> ""]
    /\ returned' = "none"
    /\ calls' = calls + 1
    /\ UNCHANGED <<tmp_file, target_file, server>>
    /\ UNCHANGED <<pc, fieldVars, sessionVars>>

\* the status and body the server answers the request with
ResponseTo(range) ==
    IF range = None \/ server = "ignores" THEN [status |-> 200, body |-> Remote]
    ELSE IF range[1] < Len(Remote)
    THEN [status |-> 206, body |-> SubSeq(Remote, range[1] + 1, Len(Remote))]
    ELSE [status |-> 416, body |-> ""]

\* request_builder.send().await? fails, or the status is 404 or another
\* failure: download_file returns Err
SendFails ==
    /\ download.at = "send"
    /\ DownloadReturn("Err")
    /\ UNCHANGED <<tmp_file, target_file, server, calls>>
    /\ UNCHANGED <<pc, fieldVars, sessionVars>>

\* the response arrives: a status that is not a success is returned as Err;
\* otherwise the `.part` file is opened for appending when start > 0 and
\* created (emptied) when not
Respond ==
    /\ download.at = "send"
    /\ LET response == ResponseTo(download.range)
       IN  IF response.status \notin {200, 206}
           THEN DownloadReturn("Err") /\ UNCHANGED tmp_file
           ELSE /\ download' = [download EXCEPT !.at = "body", !.response = response.body]
                /\ tmp_file' = IF download.start > 0 THEN tmp_file ELSE Some("")
                /\ UNCHANGED returned
    /\ UNCHANGED <<target_file, server, calls>>
    /\ UNCHANGED <<pc, fieldVars, sessionVars>>

\* one turn of `while let Some(chunk) = response.chunk().await?`:
\* writer.write_all(&chunk) leaves the chunk in the BufWriter
Chunk ==
    /\ download.at = "body"
    /\ \E n \in 1..MaxChunk :
           /\ n <= Len(download.response)
           /\ download' = [download EXCEPT
                              !.writer = @ \o SubSeq(download.response, 1, n),
                              !.response = SubSeq(@, n + 1, Len(@))]
    /\ UNCHANGED <<tmp_file, target_file, server, returned, calls>>
    /\ UNCHANGED <<pc, fieldVars, sessionVars>>

\* the BufWriter is full and writes what it holds to the `.part` file
Spill ==
    /\ download.at = "body"
    /\ download.writer # ""
    /\ tmp_file' = Some(tmp_file[1] \o download.writer)
    /\ download' = [download EXCEPT !.writer = ""]
    /\ UNCHANGED <<target_file, server, returned, calls>>
    /\ UNCHANGED <<pc, fieldVars, sessionVars>>

\* response.chunk().await? fails before the body has ended
ChunkFails ==
    /\ download.at = "body"
    /\ download.response # ""
    /\ DownloadReturn("Err")
    /\ UNCHANGED <<tmp_file, target_file, server, calls>>
    /\ UNCHANGED <<pc, fieldVars, sessionVars>>

\* the body has ended: writer.flush().await?
Flush ==
    /\ download.at = "body"
    /\ download.response = ""
    /\ tmp_file' = Some(tmp_file[1] \o download.writer)
    /\ download' = [download EXCEPT !.at = "rename", !.writer = ""]
    /\ UNCHANGED <<target_file, server, returned, calls>>
    /\ UNCHANGED <<pc, fieldVars, sessionVars>>

\* tokio::fs::rename(&tmp_path, target_path).await?; Ok(())
Rename ==
    /\ download.at = "rename"
    /\ target_file' = tmp_file
    /\ tmp_file' = None
    /\ DownloadReturn("Ok")
    /\ UNCHANGED <<server, calls>>
    /\ UNCHANGED <<pc, fieldVars, sessionVars>>

\* the process is stopped while download_file runs
Interrupt ==
    /\ download.at # "idle"
    /\ DownloadReturn("interrupted")
    /\ UNCHANGED <<tmp_file, target_file, server, calls>>
    /\ UNCHANGED <<pc, fieldVars, sessionVars>>

DownloadNext ==
    \/ DownloadCall
    \/ SendFails
    \/ Respond
    \/ Chunk
    \/ Spill
    \/ ChunkFails
    \/ Flush
    \/ Rename
    \/ Interrupt

SpecDownload == DownloadInit /\ [][DownloadNext]_vars

\* ------------------------------------------------------------------------
\* Properties of the field kinds (SpecField)
\* ------------------------------------------------------------------------

\* the section is the label and colon followed by nothing but whitespace
LabelOnly(name, section) ==
    /\ StartsWith(section, name \o ":")
    /\ Trim(SubSeq(section, Len(name) + 2, Len(section))) = ""

FieldParsed == pc \in {"reparsed", "parsed"}

\* C3: every required field kind answers RequiredFieldEmpty(name) to a section
\* that is its label and colon followed by nothing but whitespace, the
\* label-only text included
C3_RequiredFieldEmpty ==
    (FieldParsed /\ field.kind \in RequiredKinds /\ LabelOnly(field.name, fragment))
        => parsed = RequiredFieldEmpty(field.name)

\* C4: every optional field kind answers a section that is its label and colon
\* followed only by whitespace with success and an empty value: the empty
\* string or the empty list, never a list of one element
C4_OptionalFieldEmpty ==
    (FieldParsed /\ field.kind \in OptionalKinds /\ LabelOnly(field.name, fragment))
        => /\ parsed.ok
           /\ parsed.val.value = ""
           /\ parsed.val.values = <<>>

ChoiceMarker(kind) ==
    IF kind = "ChoiceField" THEN "## CHOOSE ONE ##" ELSE "## CHOOSE ONE OR DELETE ALL ##"

\* C10: a ChoiceField or OptionalChoiceListField with an empty value and n >= 1
\* injected candidates renders its label, one marker line, then exactly the
\* candidates one per line in injection order; with a non-empty value it
\* renders the label and the value, no marker and no candidate line
C10_ChoicePlaceholder ==
    (pc = "rendered" /\ field.kind \in {"ChoiceField", "OptionalChoiceListField"})
        => IF FormField_value(field) = ""
           THEN Len(field.choices) >= 1
                    => Split(fragment, "\n")
                           = <<field.name \o ":", ChoiceMarker(field.kind)>> \o field.choices
           ELSE /\ fragment = field.name \o ": " \o FormField_value(field)
                /\ ~Contains(fragment, "## CHOOSE")
                /\ Len(Split(fragment, "\n")) = 1

\* two candidates injected into an empty ChoiceField, then rendered
C10_Witness ==
    /\ pc = "rendered"
    /\ field.kind = "ChoiceField"
    /\ field.value = ""
    /\ field.choices = <<"WABC-TV", "ABC News">>
    /\ Split(fragment, "\n") = <<field.name \o ":", "## CHOOSE ONE ##",
                                 "WABC-TV", "ABC News">>

\* rendered and parsed again with no edit in between, no candidates injected
Reparsed == pc = "reparsed" /\ field.choices = <<>>

\* C11: for every field kind and every value (non-empty where the kind is
\* required), Kind::from_input_str(name, field.as_string()) succeeds and
\* returns a field of the same name and an identical value
C11_FieldRoundTrip ==
    (Reparsed /\ (field.kind \in RequiredKinds => FormField_value(field) # ""))
        => /\ parsed.ok
           /\ parsed.val.name = field.name
           /\ FormField_value(parsed.val) = FormField_value(field)

\* what is left of a section once the prefix "{name}: " is stripped and the
\* rest trimmed and lower-cased
Answer(name, section) == ToLowercase(Trim(TrimStartMatches(section, name \o ": ")))

\* C15: BooleanField::from_input_str accepts exactly the values that equal
\* "yes" or "no" case-insensitively after stripping the label and trimming,
\* with true for yes and false for no; the text BooleanField renders parses
\* back to the same boolean
C15_BooleanParsing ==
    (FieldParsed /\ field.kind = "BooleanField" /\ StartsWith(fragment, field.name \o ": "))
        => IF Answer(field.name, fragment) \in {"yes", "no"}
           THEN /\ parsed.ok
                /\ parsed.val.flag = (Answer(field.name, fragment) = "yes")
           ELSE ~parsed.ok

\* C16: every field kind's from_input_str returns MalformedField(name) when
\* the section does not contain the field's label, and it does so before the
\* empty-value test: a section with neither label nor value is malformed, not
\* empty
C16_StructuralCorruption ==
    (FieldParsed /\ ~Contains(fragment, field.name)) => parsed = MalformedField(field.name)

\* a required field handed a section that has neither its label nor a value
C16_Witness ==
    /\ pc = "parsed"
    /\ field.kind = "TextField"
    /\ fragment = "\n"
    /\ parsed = MalformedField(field.name)

\* C17: a placeholder block is rendered only when candidates were injected:
\* an empty-valued OptionalChoiceField or OptionalChoiceListField that
\* add_choices never gave a candidate renders its label alone, with no marker
\* line
C17_NoCandidatesNoMarker ==
    (/\ pc = "rendered"
     /\ field.kind \in {"OptionalChoiceField", "OptionalChoiceListField"}
     /\ FormField_value(field) = ""
     /\ field.choices = <<>>)
        => /\ fragment = field.name \o ":"
           /\ ~Contains(fragment, "## CHOOSE")

\* ------------------------------------------------------------------------
\* Properties of the commands and codecs (Spec)
\* ------------------------------------------------------------------------

Range(items) == {items[i] : i \in 1..Len(items)}

\* the parser has been given the completed text
ParseRan == pc \in {"build", "save", "done"} /\ editor \in {"some", "read"}

\* the parser returned Ok and the reconstruction has run
BuildRan == pc \in {"save", "done"} /\ editor \in {"some", "read"} /\ form.ok

\* an edit command whose editor handed the shown text back as it was
Unedited == pc # "idle" /\ cmd.op = "edit" /\ editor = "some" /\ text = template

PathsOf(files) == [i \in 1..Len(files) |-> files[i][1]]
WithoutId(t) == [t EXCEPT !.id = 0]
NameAndTypes(p) == <<p.name, p.types>>

\* the attributes a form carries are those of the record
SameRecord(entity, a, b) ==
    CASE entity = "master_videos" ->
            /\ a.id = b.id /\ a.title = b.title /\ a.categories = b.categories
            /\ a.date = b.date /\ a.description = b.description /\ a.links = b.links
            /\ a.nist_notes = b.nist_notes /\ a.news_broadcasts = b.news_broadcasts
            /\ MapSeq(a.timestamps, WithoutId) = MapSeq(b.timestamps, WithoutId)
            /\ MapSeq(a.people, NameAndTypes) = MapSeq(b.people, NameAndTypes)
            /\ PathsOf(a.nist_files) = PathsOf(b.nist_files)
      [] entity = "videos" ->
            /\ a.id = b.id /\ a.title = b.title /\ a.channel_username = b.channel_username
            /\ a.description = b.description /\ a.link = b.link
            /\ a.duration = b.duration /\ a.is_primary = b.is_primary
            /\ a.master.title = b.master.title
      [] OTHER -> a = b

\* C1: an edit of a master video, video, news network, news affiliate or news
\* broadcast whose text comes back unedited parses, reconstructs, and yields
\* the record it started from in every attribute the form carries
C1_RoundTrip ==
    (Unedited /\ cmd.entity \in Addable)
        => /\ pc \in {"build", "save", "done"} => form.ok
           /\ pc \in {"save", "done"} => /\ built.ok
                                         /\ SameRecord(cmd.entity, built.val, original)

SectionCount(s) == Len(Split(s, "---\n"))

\* the field count of each entity's form
FieldCount(entity) ==
    CASE entity = "master_videos" -> 17
      [] entity = "videos" -> 7
      [] entity = "news_networks" -> 2
      [] entity = "news_affiliates" -> 4
      [] entity = "news_broadcasts" -> 4
      [] entity = "nist_videos" -> 2
      [] entity = "nist_tapes" -> 1

\* C2: every entity parser rejects with MalformedForm a text whose number of
\* "---\n"-delimited sections differs from the entity's field count
C2_SectionCount ==
    (ParseRan /\ SectionCount(text) # FieldCount(cmd.entity)) => form = MalformedForm

\* the names listed in a role field of the parsed form
Listed(label) == Range(Form_get_field(form.val, label).val.values)

\* the PersonTypes of the role fields that list a name
TypesListing(name) == {pairs[i][2] : i \in {k \in 1..Len(pairs) : name \in Listed(pairs[k][1])}}

\* C5: after master_video_from_form the people hold one Person per listed
\* name, and each Person's types are, without duplicates, exactly the
\* PersonTypes of the role fields that list the name
C5_PersonMerge ==
    (BuildRan /\ cmd.entity = "master_videos" /\ built.ok)
        => LET people == built.val.people
           IN  /\ \A i, j \in 1..Len(people) : people[i].name = people[j].name => i = j
               /\ {people[i].name : i \in 1..Len(people)}
                      = UNION {Listed(pairs[k][1]) : k \in 1..Len(pairs)}
               /\ \A i \in 1..Len(people) :
                      /\ Cardinality(Range(people[i].types)) = Len(people[i].types)
                      /\ Range(people[i].types) = TypesListing(people[i].name)

\* a name listed twice in Fire and a known reporter listed in three role fields
C5_Witness ==
    /\ BuildRan /\ cmd.entity = "master_videos" /\ built.ok
    /\ Form_get_field(form.val, "Fire").val.values = <<"Alice", "Alice", "John DelGiorno">>
    /\ \E i \in 1..Len(built.val.people) :
           /\ built.val.people[i].name = "John DelGiorno"
           /\ built.val.people[i].types = <<"Fire", "Reporter", "Videographer">>
    /\ Cardinality({i \in 1..Len(built.val.people) : built.val.people[i].name = "Alice"}) = 1

\* the Network and Affiliate values of a parsed broadcast form
NetworkValue == FormField_value(Form_get_field(form.val, "Network").val)
AffiliateValue == FormField_value(Form_get_field(form.val, "Affiliate").val)
DateParses == NaiveDate_from_str(FormField_value(Form_get_field(form.val, "Date").val)).ok

NetworkNames == {get_news_networks(Archive)[i].name : i \in 1..Len(get_news_networks(Archive))}
AffiliateNames ==
    {get_news_affiliates(Archive)[i].name : i \in 1..Len(get_news_affiliates(Archive))}

BroadcastBuilt == BuildRan /\ cmd.entity = "news_broadcasts"

\* exactly one side of the broadcast form is given, and it is in its list
OneSide ==
    \/ NetworkValue # "" /\ AffiliateValue = "" /\ NetworkValue \in NetworkNames
    \/ NetworkValue = "" /\ AffiliateValue # "" /\ AffiliateValue \in AffiliateNames

\* the reconstruction attached the entity named on the given side, None on the other
AttachedOneSide ==
    /\ built.ok
    /\ IF NetworkValue # ""
       THEN /\ built.val.news_network # None
            /\ built.val.news_network[1].name = NetworkValue
            /\ built.val.news_affiliate = None
       ELSE /\ built.val.news_affiliate # None
            /\ built.val.news_affiliate[1].name = AffiliateValue
            /\ built.val.news_network = None

MasterTitles ==
    {get_master_videos(Archive)[i].title : i \in 1..Len(get_master_videos(Archive))}
BroadcastStrings ==
    {NewsBroadcast_to_string(get_news_broadcasts(Archive)[i])
        : i \in 1..Len(get_news_broadcasts(Archive))}

Resolving == {"news_affiliates", "news_broadcasts", "videos", "master_videos"}

\* the values of the parsed form that equal no display string of their list
Unresolved(entity) ==
    CASE entity = "news_affiliates" -> {NetworkValue} \ NetworkNames
      [] entity = "news_broadcasts" ->
            ({NetworkValue} \ NetworkNames) \cup ({AffiliateValue} \ AffiliateNames)
      [] entity = "videos" ->
            {FormField_value(Form_get_field(form.val, "Master").val)} \ MasterTitles
      [] entity = "master_videos" -> Listed("News Broadcasts") \ BroadcastStrings

\* the codec returned an error naming one of the values, and no object
NamesOneOf(values) ==
    /\ ~built.ok /\ ~built.panic
    /\ built.val = NoValue
    /\ built.err.tag \in {"is not in the networks list", "is not in the affiliates list",
                          "is not in the master list", "is not a valid broadcast"}
    /\ built.err.arg \in values

\* C7 as stated: a Network, Affiliate or Master value, or an item of News
\* Broadcasts, that equals no display string of the supplied list makes the
\* codec return an error naming the value, and no domain object
C7_NeverDefaults ==
    (BuildRan /\ cmd.entity \in Resolving /\ Unresolved(cmd.entity) # {})
        => NamesOneOf(Unresolved(cmd.entity))

\* C7: a non-empty Network, Affiliate or Master value, or an item of News
\* Broadcasts, that equals no display string of the supplied list makes the
\* codec return an error naming the value, and no domain object; an empty
\* Network or Affiliate of a news broadcast form is no reference and attaches
\* None on its side
C7_NonEmptyNeverDefaults ==
    (BuildRan /\ cmd.entity \in Resolving)
        => /\ Unresolved(cmd.entity) \ {""} # {}
                  => NamesOneOf(Unresolved(cmd.entity) \ {""})
           /\ (cmd.entity = "news_broadcasts" /\ built.ok)
                  => /\ NetworkValue = "" <=> built.val.news_network = None
                     /\ AffiliateValue = "" <=> built.val.news_affiliate = None

\* an affiliate form naming a network that is not in the list was turned down
C7_Witness ==
    /\ BuildRan /\ cmd.entity = "news_affiliates"
    /\ NetworkValue = "NBC"
    /\ built = Err("is not in the networks list", "NBC")
    /\ pc = "done" /\ saves = 0

\* C8: when the editor returns None the command ends with Ok(()), having built
\* no domain object and called no db::save_*
C8_Cancellation ==
    (pc = "done" /\ editor = "none")
        => /\ outcome = Ok(NoValue)
           /\ built = Ok(NoValue)
           /\ saves = 0
           /\ db = Archive

\* C9: a command calls db::save_* at most once, and only after its parser and
\* its *_from_form have both returned Ok; when either fails the command
\* returns that error and has saved nothing
C9_AllOrNothing ==
    /\ saves <= 1
    /\ pc = "build" => ParseRan /\ form.ok
    /\ pc = "save" => /\ ParseRan /\ form.ok /\ built.ok
                      /\ form = FormFromStr(cmd.entity, text)
                      /\ built = FromForm(db, cmd, original, form.val)
                      /\ saves = 0
    /\ saves = 1 => pc = "done" /\ ParseRan /\ form.ok /\ built.ok
    /\ (pc = "done" /\ ParseRan /\ ~(form.ok /\ built.ok))
           => /\ saves = 0
              /\ db = Archive
              /\ outcome = IF ~form.ok THEN form ELSE built

\* an add from a --path file parsed, reconstructed and was saved once
C9_Witness ==
    /\ pc = "done" /\ editor = "read"
    /\ cmd.entity = "master_videos"
    /\ form.ok /\ built.ok
    /\ saves = 1 /\ outcome = Ok(NoValue)
    /\ Len(db.master_videos) = Len(Archive.master_videos) + 1

\* the kinds and labels Form::from_*_str of the entity gives sections 0..N-1
SchemaOf(entity) ==
    CASE entity = "master_videos" -> MasterVideoSchema
      [] entity = "videos" -> VideoSchema
      [] entity = "news_networks" -> NewsNetworkSchema
      [] entity = "news_affiliates" -> NewsAffiliateSchema
      [] entity = "news_broadcasts" -> NewsBroadcastSchema
      [] entity = "nist_tapes" -> NistTapeSchema
      [] entity = "nist_videos" -> NistVideoSchema

ParserLabels(entity) == [i \in 1..Len(SchemaOf(entity)) |-> SchemaOf(entity)[i][2]]
RenderedLabels(f) == [i \in 1..Len(f) |-> f[i].name]

\* the command has the record its form is made from
HasRecord == pc # "idle" /\ original # NoValue

\* C12: for every entity type the ordered list of labels Form::from(&entity)
\* produces is the ordered list of labels the entity's Form::from_*_str gives
\* to sections 0..N-1: same length, same order
C12_FixedSchema ==
    HasRecord => RenderedLabels(FormFrom(cmd.entity, original)) = ParserLabels(cmd.entity)

\* master_video_from_form has returned Ok and the save has not run yet
MasterBuilt == pc = "save" /\ cmd.entity = "master_videos"

\* C13: for each name listed in a role field the resulting Person carries the
\* id, description and historical title of the first reference person of
\* exactly that name, or id 0 with no description and no title when there is
\* none; every listed name gets a Person, and no reference person that the
\* form does not name is added
C13_PersonIdentity ==
    MasterBuilt
        => LET people == built.val.people
               refs == get_people(db)
               Matches(name) == {k \in 1..Len(refs) : refs[k].name = name}
               First(name) == refs[CHOOSE k \in Matches(name) : \A l \in Matches(name) : k <= l]
               AllListed == UNION {Listed(pairs[k][1]) : k \in 1..Len(pairs)}
           IN  /\ \A name \in AllListed : \E i \in 1..Len(people) : people[i].name = name
               /\ \A i \in 1..Len(people) :
                      /\ people[i].name \in AllListed
                      /\ IF Matches(people[i].name) # {}
                         THEN /\ people[i].id = First(people[i].name).id
                              /\ people[i].description = First(people[i].name).description
                              /\ people[i].historical_title
                                     = First(people[i].name).historical_title
                         ELSE /\ people[i].id = 0
                              /\ people[i].description = None
                              /\ people[i].historical_title = None

\* a form naming an unknown person and a known one, a third reference person
\* left out
C13_Witness ==
    /\ MasterBuilt
    /\ \E i \in 1..Len(built.val.people) :
           /\ built.val.people[i].name = "Alice"
           /\ built.val.people[i].id = 0
    /\ \E i \in 1..Len(built.val.people) :
           /\ built.val.people[i].name = "John DelGiorno"
           /\ built.val.people[i].id = 1
           /\ built.val.people[i].historical_title = Some("WABC helicopter reporter")
    /\ \A i \in 1..Len(built.val.people) : built.val.people[i].name # "Lori Stokes"

\* C14: in every add and edit command an Err returned by the editor call is
\* returned to the caller as an error, never as a successful "no change", and
\* no save call is made
C14_EditorFailure ==
    (pc = "done" /\ editor = "err")
        => /\ ~outcome.ok
           /\ saves = 0
           /\ db = Archive

\* the text has one section per label of the schema, each section starting
\* with its label and a colon, in the schema's order
Canonical(schema, s) ==
    LET parts == Split(s, "---\n")
    IN  /\ Len(parts) = Len(schema)
        /\ \A i \in 1..Len(schema) : StartsWith(parts[i], schema[i][2] \o ":")

\* C18: for any master-video document t in canonical layout (17 sections with
\* the labels in fixed order) that Form::from_master_video_str accepts,
\* Form::from_master_video_str(t).as_string() is t with leading and trailing
\* whitespace trimmed
C18_RerenderReproduces ==
    (ParseRan /\ cmd.entity = "master_videos" /\ form.ok
        /\ Canonical(MasterVideoSchema, text))
        => Form_as_string(form.val) = Trim(text)

\* the lines of the NIST Files field of the parsed form
NistFileLines == Form_get_field(form.val, "NIST Files").val.values

\* the (path, size) pairs the codec made of them
NistFilePairs == IF cmd.entity = "master_videos" THEN built.val.nist_files ELSE built.val

\* C19: every line of the NIST Files field of a master-video form or a
\* NIST-tape form becomes one (path, size) pair, in the same order, with the
\* raw text of the line as path and size 0: no real size is looked up and no
\* line is dropped or moved
C19_NistFileReferences ==
    (pc = "save" /\ cmd.entity \in {"master_videos", "nist_tapes"})
        => /\ Len(NistFilePairs) = Len(NistFileLines)
           /\ \A i \in 1..Len(NistFileLines) :
                  NistFilePairs[i] = <<NistFileLines[i], 0>>

\* two files the release catalogue knows with sizes 100 and 200, listed in a
\* master-video form
C19_Witness ==
    /\ pc = "save" /\ cmd.entity = "master_videos"
    /\ NistFileLines = <<"42A0001.avi", "42A0002.avi">>
    /\ built.val.nist_files = <<<<"42A0001.avi", 0>>, <<"42A0002.avi", 0>>>>
    /\ \E i \in 1..Len(db.release_files) :
           db.release_files[i].path = "42A0001.avi" /\ db.release_files[i].size = 100

\* the command got as far as opening the editor on its form
EditorOpened == pc = "editor" \/ editor \in {"err", "none", "some"}

\* C20: Form::add_choices(field_name, candidates) appends the candidates to
\* the named field when it is a ChoiceField, an OptionalChoiceField or an
\* OptionalChoiceListField, and otherwise fails with ChoiceFieldNotFound; in
\* particular the add_choices calls of the add-news-broadcast editor flow on
\* "Network" and "Affiliate" succeed and the editor is opened with both
\* candidate lists
C20_AddChoices ==
    HasRecord
        => LET shown == FormFrom(cmd.entity, original)
               candidates == <<"ABC News", "CNN">>
           IN  /\ \A i \in 1..Len(shown) :
                      LET r == Form_add_choices(shown, shown[i].name, candidates)
                      IN  IF shown[i].kind \in ChoiceKinds
                          THEN /\ r.ok
                               /\ r.val = [shown EXCEPT ![i].choices = @ \o candidates]
                          ELSE r = ChoiceFieldNotFound(shown[i].name)
               /\ (cmd.entity = "news_broadcasts" /\ cmd.op = "add" /\ cmd.mode = "editor")
                      => /\ EditorOpened
                         /\ Contains(template, "ABC News\nCNN")
                         /\ Contains(template, "WABC-TV")

\* entities whose codec takes the id of the record as an argument
Identified ==
    {"master_videos", "videos", "news_networks", "news_affiliates", "news_broadcasts"}

\* C21: the core never assigns identity: the record every *_from_form returns
\* has the id it was given whatever the form holds, and the commands give 0
\* on every add path and the fetched record's id on every edit path
C21_IdentityNotAssigned ==
    (pc = "save" /\ cmd.entity \in Identified)
        => built.val.id = (IF cmd.op = "add" THEN 0 ELSE original.id)

\* the form of network 2 handed back with another name and rebuilt
C21_Witness ==
    /\ pc = "save"
    /\ cmd.entity = "news_networks" /\ cmd.op = "edit"
    /\ text # template
    /\ built.val.id = 2 /\ original.id = 2
    /\ built.val.name # original.name

\* C22: after any sequence of add and edit news-broadcast commands every
\* persisted news broadcast references exactly one of network or affiliate
C22_ExactlyOneSidePersisted ==
    \A i \in 1..Len(db.news_broadcasts) :
        (db.news_broadcasts[i].news_network_id = None)
            # (db.news_broadcasts[i].news_affiliate_id = None)

IdsOf(table) == {table[i].id : i \in 1..Len(table)}
UniqueIds(table) == \A i, j \in 1..Len(table) : table[i].id = table[j].id => i = j

\* C23: a save of a record with id 0 inserts one new row and returns the
\* record with the id that row was given, an id no row had; a save of a record
\* with a non-zero id updates the row of that id and creates no second row;
\* so the ids of an entity's table stay unique and an edit command never
\* changes the number of its rows
C23_Lifecycle ==
    [][(pc = "save" /\ cmd.entity \in Identified)
          => LET before == db[cmd.entity]
                 after == db'[cmd.entity]
                 saved == SaveOf(db, cmd, original, built.val)
             IN  /\ UniqueIds(after)
                 /\ cmd.op = "edit" => Len(after) = Len(before)
                 /\ IF ~saved.res.ok THEN after = before
                    ELSE IF built.val.id = 0
                    THEN /\ Len(after) = Len(before) + 1
                         /\ saved.res.val.id \notin IdsOf(before)
                         /\ IdsOf(after) = IdsOf(before) \cup {saved.res.val.id}
                         /\ SubSeq(after, 1, Len(before)) = before
                    ELSE /\ saved.res.val.id = built.val.id
                         /\ IdsOf(after) = IdsOf(before)
                         /\ \A i \in 1..Len(before) :
                                before[i].id # built.val.id => after[i] = before[i]]_vars

\* a network added by one command and edited under its new id by the next
C23_Witness ==
    /\ pc = "done" /\ saves = 2 /\ outcome.ok
    /\ cmd.entity = "news_networks" /\ cmd.op = "edit" /\ cmd.id = 3
    /\ Len(db.news_networks) = Len(Archive.news_networks) + 1
    /\ UniqueIds(db.news_networks)

\* a master-video command has saved its record
MasterSaved == pc = "done" /\ cmd.entity = "master_videos" /\ saves >= 1 /\ outcome.ok

\* the id of the record the last command saved: the last row's for a new record
SavedId ==
    IF built.val.id = 0 THEN db[cmd.entity][Len(db[cmd.entity])].id ELSE built.val.id

\* C24: after save_master_video succeeds for a video with broadcasts B, each
\* association row of B has the saved video's id as master_video_id and the
\* broadcast's id as news_broadcast_id, and get_master_video of that video
\* returns exactly the broadcasts B
C24_BroadcastLinks ==
    MasterSaved
        => LET B == {built.val.news_broadcasts[i].id :
                         i \in 1..Len(built.val.news_broadcasts)}
               got == get_master_video(db, SavedId)
           IN  /\ \A b \in B : <<SavedId, b>> \in db.master_videos_news_broadcasts
               /\ got.ok
               /\ {got.val.news_broadcasts[i].id : i \in 1..Len(got.val.news_broadcasts)} = B

\* the stored timestamps of one master video, in table order
TimestampsOf(d, id) ==
    LET OfMaster(t) == t.master_video_id = id
    IN  RowsWhere(d.event_timestamps, OfMaster)

\* the form was submitted with every section as it was shown, the last section
\* (NIST Files) left aside: the form of a video that has timestamps shows their
\* text again under NIST Files, which no save accepts as it stands
SubmittedAsShown ==
    LET shown == Split(template, "\n---\n")
        submitted == Split(text, "\n---\n")
    IN  /\ Len(submitted) = Len(shown)
        /\ \A i \in 1..(Len(shown) - 1) : submitted[i] = shown[i]

\* C25: a master-video edit that submits the form as it was shown leaves the
\* stored event timestamps of that video as they were, in number and content,
\* in every command of a sequence of commands
C25_NoOpEdit ==
    [][(pc = "save" /\ cmd.entity = "master_videos" /\ cmd.op = "edit"
            /\ SubmittedAsShown)
          => TimestampsOf(db', built.val.id) = TimestampsOf(db, built.val.id)]_vars

\* the names of a sequence of people
NamesOf(people) == {people[i].name : i \in 1..Len(people)}

\* C26: after a master-video edit is saved, the people associated with the
\* video are exactly the people the submitted form lists in its eight role
\* fields
C26_PeopleAsListed ==
    (MasterSaved /\ cmd.op = "edit")
        => NamesOf(get_master_video(db, built.val.id).val.people) = NamesOf(built.val.people)

\* the release files associated with a tape
TapeFiles(d, tape_id) == {pr[2] : pr \in {q \in d.nist_tapes_release_files : q[1] = tape_id}}

\* the associations of the other tapes
OtherTapes(d, tape_id) == {q \in d.nist_tapes_release_files : q[1] # tape_id}

\* C27: save_nist_tape_files replaces atomically: when every submitted path
\* has a release_files row the call succeeds and the tape's associated files
\* are exactly the rows of the submitted paths, the previous ones removed;
\* when a path has none the call fails and the database is left as it was;
\* the associations of other tapes are never touched
C27_AtomicReplace ==
    [][(pc = "save" /\ cmd.entity = "nist_tapes")
          => LET tape_id == original.tape_id
                 paths == {built.val[i][1] : i \in 1..Len(built.val)}
                 Known(path) == \E k \in 1..Len(db.release_files) :
                                    db.release_files[k].path = path
                 submitted == {db.release_files[k].id :
                                  k \in {j \in 1..Len(db.release_files) :
                                            db.release_files[j].path \in paths}}
             IN  IF \A path \in paths : Known(path)
                 THEN /\ outcome'.ok
                      /\ TapeFiles(db', tape_id) = submitted
                      /\ OtherTapes(db', tape_id) = OtherTapes(db, tape_id)
                 ELSE /\ ~outcome'.ok
                      /\ outcome'.err.arg = "release_files"
                      /\ db' = db]_vars

\* tape 1, associated with file 1, was saved with file 2 alone
C27_Witness ==
    /\ pc = "done" /\ cmd.entity = "nist_tapes" /\ saves >= 1 /\ outcome.ok
    /\ original.tape_id = 1
    /\ built.val = <<<<"42A0002.avi", 0>>>>
    /\ TapeFiles(db, 1) = {2}

\* C28: for every text Form::from_master_video_str accepts,
\* master_video_from_form returns Ok(record) or Err(error): an unrecognised
\* category, a malformed timestamp line or an unparseable date never ends the
\* command in a panic
C28_CodecNeverAborts ==
    (pc \in {"save", "done"} /\ cmd.entity = "master_videos" /\ form.ok)
        => ~built.panic /\ ~outcome.panic

\* the items of the Categories field of the parsed form
CategoryItems == Form_get_field(form.val, "Categories").val.values

\* C29: the text of every category is read back as that category, so a
\* master-video form whose Categories field lists texts of categories is
\* never refused for its categories, and the record built from it holds
\* exactly the categories listed
C29_CategoryRoundTrip ==
    (/\ pc \in {"save", "done"} /\ cmd.entity = "master_videos" /\ form.ok
     /\ form.val # NoValue
     /\ \A i \in 1..Len(CategoryItems) :
            \E c \in Categories : Category_to_string(c) = CategoryItems[i])
        => /\ built.err.tag # "is not a valid category"
           /\ built.ok =>
                 /\ Len(built.val.categories) = Len(CategoryItems)
                 /\ \A i \in 1..Len(CategoryItems) :
                        Category_to_string(built.val.categories[i]) = CategoryItems[i]

\* C30: over any sequence of interrupted and resumed download_file calls for
\* one URL the file at target_path is absent or holds the whole remote
\* content, never a part of it or anything else; when a call has returned Ok
\* it holds the whole remote content; and a call that finds a `.part` file
\* asks for the bytes from its length onward
C30_ResumableDownload ==
    /\ target_file \in {None, Some(Remote)}
    /\ returned = "Ok" => target_file = Some(Remote)
    /\ (download.at = "send" /\ tmp_file # None)
           => download.range = Some(Len(tmp_file[1]))

====
